---- MODULE Spec2Model ----
(***************************************************************************)
(* Cache-aside decorators of rssh-jp/test-api: cachedUserRepository and    *)
(* cachedPostRepository in front of the MySQL repositories, with Redis as  *)
(* the Cache Store.  Every Cache Store call and every Data Source call of  *)
(* a request is one atomic step.  Spec runs the requests one after another *)
(* (the setting the read-through and invalidation contracts speak of);     *)
(* SpecAPI puts the handlers and usecases on top, with the goroutines the  *)
(* post usecase starts; SpecRace and SpecReads interleave the calls of     *)
(* concurrent requests; SpecKey and SpecFlag apply the key derivation and  *)
(* the usecase selection to drawn parameters, SpecPage the pagination;     *)
(* SpecEnc lets json.Marshal fail; SpecWarm, SpecUpdate and SpecScan start *)
(* from a cache that already holds entries; SpecLive lets time go on under *)
(* fairness of the clock; SpecGuard calls the guarded usecase methods with *)
(* valid and invalid input; SpecBoot runs main from its first ping.        *)
(***************************************************************************)
EXTENDS Integers, Sequences, FiniteSets, TLC

(* ------------------------------ bounds -------------------------------- *)

\* Requests started in one behaviour.
MaxReqs == 2
\* Largest id the users table's AUTO_INCREMENT counter hands out.
MaxUserID == 2
\* Cap of a post's view_count.
MaxViews == 1
\* Clock advances and foreign overwrites of an entry in one behaviour.
MaxEvents == 1
\* Bits of Go's int (64 in the build; the arithmetic wraps the same way).
IntBits == 16

\* Concurrent request goroutines.
Procs == {"p1", "p2"}

(* -------------------------- program constants ------------------------- *)

\* ttl: 5 * time.Minute -- the clock of the model ticks in minutes.
TTL == 5

(* ------------------------------ fixtures ------------------------------ *)

Names == {"A", "B"}
UserIDs == 1..MaxUserID
PostIDs == {1, 2}
\* posts in ORDER BY published_at DESC
PostOrder == <<2, 1>>
PostSlug == [i \in PostIDs |-> IF i = 1 THEN "a" ELSE "b"]
PostCategory == [i \in PostIDs |-> "c"]
PostTag == [i \in PostIDs |-> IF i = 1 THEN "t" ELSE ""]
PostFeatured == [i \in PostIDs |-> i = 2]
Slugs == {"a", "z"}
CategorySlugs == {"c"}
TagSlugs == {"t"}
\* (limit, offset) of the paginated reads
Pages == {<<1, 0>>, <<1, 1>>}
SlugPages == {<<2, 0>>}
FeaturedLimits == {1}

(* --------------------------- key derivation --------------------------- *)

Digits == <<"0", "1", "2", "3", "4", "5", "6", "7", "8", "9">>

RECURSIVE FormatNat(_)
FormatNat(n) ==
    IF n < 10 THEN Digits[n + 1]
    ELSE FormatNat(n \div 10) \o Digits[(n % 10) + 1]

\* fmt's %d verb
FormatInt(n) == IF n < 0 THEN "-" \o FormatNat(0 - n) ELSE FormatNat(n)

getCacheKey(id) == "user:" \o FormatInt(id)

UsersAllKey == "users:all"

getPostCacheKey(id) == "post:" \o FormatInt(id)

\* PostsAllKey without the offset.
PostsAllKeyNoOffset(limit, offset) == "posts:all:limit=" \o FormatInt(limit)

PostsAllKey(limit, offset) ==
    "posts:all:limit=" \o FormatInt(limit) \o ":offset=" \o FormatInt(offset)

PostSlugKey(slug) == "post:slug:" \o slug

\* PostsCategoryKey in the namespace of the tag lists.
PostsCategoryKeyAsTag(slug, limit, offset) ==
    "posts:tag:" \o slug \o ":limit=" \o FormatInt(limit)
        \o ":offset=" \o FormatInt(offset)

PostsCategoryKey(slug, limit, offset) ==
    "posts:category:" \o slug \o ":limit=" \o FormatInt(limit)
        \o ":offset=" \o FormatInt(offset)

PostsTagKey(slug, limit, offset) ==
    "posts:tag:" \o slug \o ":limit=" \o FormatInt(limit)
        \o ":offset=" \o FormatInt(offset)

PostsFeaturedKey(limit) == "posts:featured:limit=" \o FormatInt(limit)

TotalCountKey == "posts:totalcount"

UserReadOps == {"FindAll", "FindByID"}
PostReadOps == {"FindAllWithDetails", "FindByIDWithDetails", "FindBySlugWithDetails",
                "FindByCategoryWithDetails", "FindByTagWithDetails",
                "FindFeaturedWithDetails", "GetTotalCount"}
ReadOps == UserReadOps \cup PostReadOps
UserWriteOps == {"Create", "Update", "Delete"}
WriteOps == UserWriteOps \cup {"IncrementViewCount"}

\* The cacheKey each read method derives from its parameters.
cacheKey(op, a) ==
    CASE op = "FindAll" -> UsersAllKey
      [] op = "FindByID" -> getCacheKey(a.id)
      [] op = "FindAllWithDetails" -> PostsAllKey(a.limit, a.offset)
      [] op = "FindByIDWithDetails" -> getPostCacheKey(a.id)
      [] op = "FindBySlugWithDetails" -> PostSlugKey(a.slug)
      [] op = "FindByCategoryWithDetails" -> PostsCategoryKey(a.slug, a.limit, a.offset)
      [] op = "FindByTagWithDetails" -> PostsTagKey(a.slug, a.limit, a.offset)
      [] op = "FindFeaturedWithDetails" -> PostsFeaturedKey(a.limit)
      [] OTHER -> TotalCountKey

\* page and pageSize are what a paginated usecase method is called with.
NoArgs ==
    [id |-> 0, name |-> "", slug |-> "", limit |-> 0, offset |-> 0,
     page |-> 0, pageSize |-> 0]

\* The parameters each operation is called with.
ArgsOf(op) ==
    CASE op \in {"FindAll", "GetTotalCount"} -> {NoArgs}
      [] op \in {"FindByID", "Delete"} -> {[NoArgs EXCEPT !.id = i] : i \in UserIDs}
      [] op = "Create" -> {[NoArgs EXCEPT !.name = n] : n \in Names}
      [] op = "Update" ->
            {[NoArgs EXCEPT !.id = i, !.name = n] : i \in UserIDs, n \in Names}
      [] op \in {"FindByIDWithDetails", "IncrementViewCount"} ->
            {[NoArgs EXCEPT !.id = i] : i \in PostIDs}
      [] op = "FindBySlugWithDetails" -> {[NoArgs EXCEPT !.slug = s] : s \in Slugs}
      [] op = "FindAllWithDetails" ->
            {[NoArgs EXCEPT !.limit = pg[1], !.offset = pg[2]] : pg \in Pages}
      [] op = "FindByCategoryWithDetails" ->
            {[NoArgs EXCEPT !.slug = s, !.limit = pg[1], !.offset = pg[2]] :
                s \in CategorySlugs, pg \in SlugPages}
      [] op = "FindByTagWithDetails" ->
            {[NoArgs EXCEPT !.slug = s, !.limit = pg[1], !.offset = pg[2]] :
                s \in TagSlugs, pg \in SlugPages}
      [] OTHER -> {[NoArgs EXCEPT !.limit = l] : l \in FeaturedLimits}

\* Every key a read of the model can derive.
Keys == UNION {{cacheKey(op, a) : a \in ArgsOf(op)} : op \in ReadOps}

\* KEYS pattern "posts:*": the glob matches exactly the keys with that prefix.
MatchesPostsPattern(k) == Len(k) >= 6 /\ SubSeq(k, 1, 6) = "posts:"

(* ------------------------------ payloads ------------------------------ *)

\* Results travel as <<v>>; <<>> is Go's nil.
Kinds == {"user", "users", "post", "posts", "count"}

KindOf(op) ==
    CASE op = "FindAll" -> "users"
      [] op = "FindByID" -> "user"
      [] op \in {"FindByIDWithDetails", "FindBySlugWithDetails"} -> "post"
      [] op = "GetTotalCount" -> "count"
      [] OTHER -> "posts"

UserVals == [id : UserIDs, name : Names]
PostVals == {[id |-> i, slug |-> PostSlug[i], viewCount |-> v] :
                i \in PostIDs, v \in 0..MaxViews}
SeqsUpTo(S, n) == UNION {[1..m -> S] : m \in 0..n}

\* The values a payload of each kind can decode to.
ValuesOf(kind) ==
    CASE kind = "user" -> UserVals
      [] kind = "users" -> SeqsUpTo(UserVals, MaxUserID)
      [] kind = "post" -> PostVals
      [] kind = "posts" -> SeqsUpTo(PostVals, Cardinality(PostIDs))
      [] OTHER -> 0..Cardinality(PostIDs)

RECURSIVE Join(_)
Join(strs) ==
    IF Len(strs) = 1 THEN strs[1]
    ELSE strs[1] \o "," \o Join(Tail(strs))

\* json.Marshal of domain.User (the fields the model carries)
MarshalUser(u) ==
    "{\"id\":" \o FormatInt(u.id) \o ",\"name\":\"" \o u.name \o "\"}"

\* json.Marshal of domain.PostWithDetails
MarshalPost(p) ==
    "{\"id\":" \o FormatInt(p.id) \o ",\"slug\":\"" \o p.slug
        \o "\",\"viewCount\":" \o FormatInt(p.viewCount) \o "}"

\* json.Marshal of a slice: a nil slice (no rows were appended) encodes as null
MarshalArray(strs) == IF strs = <<>> THEN "null" ELSE "[" \o Join(strs) \o "]"

Marshal(kind, v) ==
    CASE kind = "user" -> MarshalUser(v)
      [] kind = "users" -> MarshalArray([i \in 1..Len(v) |-> MarshalUser(v[i])])
      [] kind = "post" -> MarshalPost(v)
      [] kind = "posts" -> MarshalArray([i \in 1..Len(v) |-> MarshalPost(v[i])])
      [] OTHER -> FormatInt(v)

\* The payloads json.Unmarshal decodes without error, with what they decode to.
DecodeTable == [k \in Kinds |-> {<<Marshal(k, v), v>> : v \in ValuesOf(k)}]

\* json.Unmarshal into the method's result type
Unmarshal(kind, data) ==
    LET hits == {e \in DecodeTable[kind] : e[1] = data}
    IN  IF hits = {} THEN [ok |-> FALSE, val |-> <<>>]
        ELSE [ok |-> TRUE, val |-> <<(CHOOSE e \in hits : TRUE)[2]>>]

\* A payload no result type decodes (written by anything but these decorators).
Garbage == "#"

(* ------------------------------- state -------------------------------- *)

VARIABLES
    users,      \* Data Source: users table, id -> username (NoUser: no row)
    nextID,     \* Data Source: AUTO_INCREMENT counter of users
    views,      \* Data Source: posts.view_count, by post id
    cache,      \* Cache Store: key -> entry
    req,        \* the request each goroutine is executing
    started,    \* requests started so far
    events,     \* clock advances and foreign overwrites so far
    boot        \* main: where startup stands and the pings made so far

vars == <<users, nextID, views, cache, req, started, events, boot>>

\* main once it serves: MySQL and Redis have each answered a ping and
\* e.Start is accepting requests.
Booted ==
    [phase |-> "serving", dbPings |-> 1, redisPings |-> 1,
     dbOk |-> TRUE, redisOk |-> TRUE]

NoUser == ""

\* An entry: the payload and the minutes it has left.  old is history: the Data
\* Source has been written since the entry was stored.
NoEntry == [present |-> FALSE, data |-> "", ttl |-> 0, old |-> FALSE]
Entry(data, ttl) == [present |-> TRUE, data |-> data, ttl |-> ttl, old |-> FALSE]

NoErr == ""
ErrNoRows == "sql: no rows in result set"
ErrDuplicate == "Error 1062: Duplicate entry"
ErrConn == "driver: bad connection"

\* A request: the method, its parameters, where it stands (pc), and what it has
\* done so far: got (how its GET went), pre (the entry under its key when it
\* looked), dsCalls/dsVal/dsErr (the wrapped repository's answer), sets/stored
\* (SET issued / taken by the store), enc (json.Marshal of what it stores
\* succeeded), dels (keys it issued DEL for), gone (the
\* keys its DELs removed), scanned/keys (KEYS posts:*), cacheOk (every Cache
\* Store call of it succeeded), alone (no other request was in flight with
\* it), res/err (what it returns).  Of a request that came in over HTTP: h (the
\* handler), q (its no_cache parameter), uc (the usecase the handler chose),
\* ret/retErr (what the usecase returns), status (the response), tasks (the
\* goroutines the usecase has started).
Idle ==
    [pc |-> "idle", op |-> "", a |-> NoArgs, key |-> "", got |-> "none",
     pre |-> NoEntry, dsCalls |-> 0, dsVal |-> <<>>, dsErr |-> NoErr,
     res |-> <<>>, err |-> NoErr, sets |-> {}, stored |-> FALSE, enc |-> TRUE,
     dels |-> {},
     gone |-> {}, scanned |-> FALSE, keys |-> {}, cacheOk |-> TRUE,
     alone |-> TRUE, h |-> "", q |-> "", uc |-> "", ret |-> <<>>,
     retErr |-> NoErr, status |-> 0, tasks |-> 0]

InFlight(p) == req[p].pc \notin {"idle", "done"}

\* A finished request is handed to its caller before anything else happens.
NoneDone == \A p \in DOMAIN req : req[p].pc # "done"

(* ---------------------------- Data Source ----------------------------- *)

RECURSIVE DescIDs(_)
\* ids of a set, highest first
DescIDs(S) ==
    IF S = {} THEN <<>>
    ELSE LET m == CHOOSE x \in S : \A y \in S : y <= x
         IN  <<m>> \o DescIDs(S \ {m})

UserRec(i) == [id |-> i, name |-> users[i]]
PostRec(i) == [id |-> i, slug |-> PostSlug[i], viewCount |-> views[i]]

\* LIMIT limit OFFSET offset of a row sequence
Page(rows, limit, offset) ==
    SubSeq(rows, offset + 1,
           IF offset + limit < Len(rows) THEN offset + limit ELSE Len(rows))

\* The published posts among ids, ORDER BY published_at DESC.
SelectPosts(ids) ==
    LET F[n \in 0..Len(PostOrder)] ==
            IF n = 0 THEN <<>>
            ELSE IF PostOrder[n] \in ids THEN Append(F[n - 1], PostRec(PostOrder[n]))
                 ELSE F[n - 1]
    IN  F[Len(PostOrder)]

Ok(v) == [val |-> <<v>>, err |-> NoErr]
Fail(e) == [val |-> <<>>, err |-> e]

\* userRepository.FindAll: rows ORDER BY created_at DESC (newest id first)
baseFindAll ==
    LET ids == DescIDs({i \in UserIDs : users[i] # NoUser})
    IN  Ok([n \in 1..Len(ids) |-> UserRec(ids[n])])

\* userRepository.FindByID
baseFindByID(id) == IF users[id] # NoUser THEN Ok(UserRec(id)) ELSE Fail(ErrNoRows)

baseFindAllWithDetails(limit, offset) ==
    Ok(Page(SelectPosts(PostIDs), limit, offset))

baseFindByIDWithDetails(id) == IF id \in PostIDs THEN Ok(PostRec(id)) ELSE Fail(ErrNoRows)

baseFindBySlugWithDetails(slug) ==
    IF \E i \in PostIDs : PostSlug[i] = slug
    THEN Ok(PostRec(CHOOSE i \in PostIDs : PostSlug[i] = slug))
    ELSE Fail(ErrNoRows)

baseFindByCategoryWithDetails(slug, limit, offset) ==
    Ok(Page(SelectPosts({i \in PostIDs : PostCategory[i] = slug}), limit, offset))

baseFindByTagWithDetails(slug, limit, offset) ==
    Ok(Page(SelectPosts({i \in PostIDs : PostTag[i] = slug}), limit, offset))

baseFindFeaturedWithDetails(limit) ==
    Ok(Page(SelectPosts({i \in PostIDs : PostFeatured[i]}), limit, 0))

baseGetTotalCount == Ok(Cardinality(PostIDs))

\* What the wrapped repository answers to a read: {val, err}; down: the
\* connection to MySQL fails.
baseRead(op, a, down) ==
    IF down THEN Fail(ErrConn)
    ELSE CASE op = "FindAll" -> baseFindAll
           [] op = "FindByID" -> baseFindByID(a.id)
           [] op = "FindAllWithDetails" -> baseFindAllWithDetails(a.limit, a.offset)
           [] op = "FindByIDWithDetails" -> baseFindByIDWithDetails(a.id)
           [] op = "FindBySlugWithDetails" -> baseFindBySlugWithDetails(a.slug)
           [] op = "FindByCategoryWithDetails" ->
                 baseFindByCategoryWithDetails(a.slug, a.limit, a.offset)
           [] op = "FindByTagWithDetails" ->
                 baseFindByTagWithDetails(a.slug, a.limit, a.offset)
           [] op = "FindFeaturedWithDetails" -> baseFindFeaturedWithDetails(a.limit)
           [] OTHER -> baseGetTotalCount

NameTaken(name, except) == \E i \in UserIDs \ {except} : users[i] = name

\* The error of the wrapped repository's write (username is UNIQUE).
baseWriteErr(op, a, down) ==
    IF down THEN ErrConn
    ELSE CASE op = "Create" -> IF NameTaken(a.name, 0) THEN ErrDuplicate ELSE NoErr
           [] op = "Update" ->
                 IF users[a.id] # NoUser /\ NameTaken(a.name, a.id)
                 THEN ErrDuplicate ELSE NoErr
           [] OTHER -> NoErr

\* The users table after a successful write.
baseWriteUsers(op, a) ==
    CASE op = "Create" -> [users EXCEPT ![nextID] = a.name]
      [] op = "Update" -> IF users[a.id] # NoUser
                          THEN [users EXCEPT ![a.id] = a.name] ELSE users
      [] op = "Delete" -> [users EXCEPT ![a.id] = NoUser]
      [] OTHER -> users

\* posts.view_count after a successful write.
baseWriteViews(op, a) ==
    IF op = "IncrementViewCount"
    THEN [views EXCEPT ![a.id] = views[a.id] + 1] ELSE views

(* ----------------------------- Cache Store ----------------------------- *)

\* Every Cache Store call takes up: whether Redis answers this call.

\* GET key: the payload, or redis.Nil for no key, or a transport error.
redisGet(k, up) ==
    IF ~up THEN [err |-> "error", data |-> ""]
    ELSE IF ~cache[k].present THEN [err |-> "absent", data |-> ""]
    ELSE [err |-> NoErr, data |-> cache[k].data]

\* SET with twice the expiry.
redisSetLonger(k, data, ttl, up) ==
    IF up THEN [cache EXCEPT ![k] = Entry(data, 2 * ttl)] ELSE cache

\* SET key data EX ttl
redisSet(k, data, ttl, up) ==
    IF up THEN [cache EXCEPT ![k] = Entry(data, ttl)] ELSE cache

\* The keys DEL key... removes (its reply counts them).
Removed(ks, up) == IF up THEN {k \in ks : cache[k].present} ELSE {}

\* DEL that answers and removes nothing.
redisDelKeeps(ks, up) == cache

\* DEL key...
redisDel(ks, up) ==
    IF up THEN [k \in Keys |-> IF k \in ks THEN NoEntry ELSE cache[k]] ELSE cache

\* KEYS with the pattern *: every key of the shared keyspace.
redisKeysAny(up) == IF up THEN {k \in Keys : cache[k].present} ELSE {}

\* KEYS with the pattern of the unfiltered list pages alone.
redisKeysPostsAllOnly(up) ==
    IF up THEN {k \in Keys : cache[k].present /\ Len(k) >= 10
                                /\ SubSeq(k, 1, 10) = "posts:all:"}
    ELSE {}

\* KEYS posts:* (the error is dropped: no keys)
redisKeysPosts(up) ==
    IF up THEN {k \in Keys : cache[k].present /\ MatchesPostsPattern(k)} ELSE {}

(* ------------------------- request goroutines ------------------------- *)

Others(p) == Procs \ {p}

\* Idle goroutines are interchangeable: the first idle one takes the request.
ProcBefore(q, p) == q = "p1" /\ p = "p2"

\* No other request is in flight.
Quiet(p) == \A o \in Others(p) : ~InFlight(o)

\* The counters of the model stay within their caps.
CanStart(op, a) ==
    CASE op = "Create" -> nextID <= MaxUserID
      [] op = "IncrementViewCount" -> views[a.id] < MaxViews
      [] OTHER -> TRUE

\* Goroutine p takes a call of op(a).
Called(p, op, a) ==
    /\ NoneDone
    /\ req[p].pc = "idle"
    /\ \A q \in Procs : ProcBefore(q, p) => req[q].pc # "idle"
    /\ started < MaxReqs
    /\ CanStart(op, a)
    /\ started' = started + 1

\* The requests once p has taken its call and come to stand at r.
Begun(p, r) ==
    [q \in Procs |->
        IF q = p THEN [r EXCEPT !.alone = Quiet(p)]
        ELSE IF InFlight(q) THEN [req[q] EXCEPT !.alone = FALSE] ELSE req[q]]

\* GetOutcome without the check of json.Unmarshal's error.
GetOutcomeUnchecked(kind, r) == IF r.err # NoErr THEN r.err ELSE "hit"

\* How the read method takes the answer of its GET: "hit", or the kind of miss.
GetOutcome(kind, r) ==
    IF r.err # NoErr THEN r.err
    ELSE IF Unmarshal(kind, r.data).ok THEN "hit" ELSE "corrupt"

\* AfterGet without the early return: the Data Source is read on a hit too.
AfterGetNoReturn(op, a, r) ==
    LET out == GetOutcome(KindOf(op), r)
    IN  [Idle EXCEPT !.op = op, !.a = a, !.key = cacheKey(op, a), !.got = out,
                     !.pre = cache[cacheKey(op, a)], !.pc = "ds",
                     !.cacheOk = out # "error"]

\* Where a read stands after "Try to get from cache": on a hit it returns.
AfterGet(op, a, r) ==
    LET out == GetOutcome(KindOf(op), r)
        r0 == [Idle EXCEPT !.op = op, !.a = a, !.key = cacheKey(op, a), !.got = out,
                           !.pre = cache[cacheKey(op, a)]]
    IN  IF out = "hit"
        THEN [r0 EXCEPT !.pc = "done", !.res = Unmarshal(KindOf(op), r.data).val]
        ELSE [r0 EXCEPT !.pc = "ds", !.cacheOk = out # "error"]

\* CacheGet with GETEX: a hit gives the entry a new TTL.
CacheGetTouch(p, op, a, up) ==
    /\ Called(p, op, a)
    /\ req' = Begun(p, AfterGet(op, a, redisGet(cacheKey(op, a), up)))
    /\ cache' = IF up /\ cache[cacheKey(op, a)].present
                THEN [cache EXCEPT ![cacheKey(op, a)].ttl = TTL]
                ELSE cache
    /\ UNCHANGED <<users, nextID, views, events, boot>>

\* A read method is called and looks its key up.
CacheGet(p, op, a, up) ==
    /\ Called(p, op, a)
    /\ req' = Begun(p, AfterGet(op, a, redisGet(cacheKey(op, a), up)))
    /\ UNCHANGED <<users, nextID, views, cache, events, boot>>

\* AfterRead wrapping the Data Source's error.
AfterReadWrapped(r0, r) ==
    IF r.err # NoErr
    THEN [r0 EXCEPT !.pc = "done", !.dsCalls = @ + 1, !.dsErr = r.err,
                    !.res = IF r0.op = "GetTotalCount" THEN <<0>> ELSE <<>>,
                    !.err = "cache: " \o r.err]
    ELSE [r0 EXCEPT !.pc = "set", !.dsCalls = @ + 1, !.dsVal = r.val, !.res = r.val]

\* AfterRead taking the result of another miss on the same key that has
\* already queried (single flight).
AfterReadShared(r0, r) ==
    IF \E o \in Procs : req[o].pc = "set" /\ req[o].key = r0.key
    THEN [r0 EXCEPT !.pc = "done",
                    !.res = req[CHOOSE o \in Procs :
                                   req[o].pc = "set" /\ req[o].key = r0.key].res]
    ELSE IF r.err # NoErr
    THEN [r0 EXCEPT !.pc = "done", !.dsCalls = @ + 1, !.dsErr = r.err,
                    !.res = IF r0.op = "GetTotalCount" THEN <<0>> ELSE <<>>,
                    !.err = r.err]
    ELSE [r0 EXCEPT !.pc = "set", !.dsCalls = @ + 1, !.dsVal = r.val, !.res = r.val]

\* AfterRead answering a failed query with no result and no error.
AfterReadSwallowed(r0, r) ==
    IF r.err # NoErr
    THEN [r0 EXCEPT !.pc = "done", !.dsCalls = @ + 1, !.dsErr = r.err,
                    !.res = IF r0.op = "GetTotalCount" THEN <<0>> ELSE <<>>]
    ELSE [r0 EXCEPT !.pc = "set", !.dsCalls = @ + 1, !.dsVal = r.val, !.res = r.val]

\* Where a read stands after "Cache miss, get from database": an error is
\* returned as it is.
AfterRead(r0, r) ==
    IF r.err # NoErr
    THEN [r0 EXCEPT !.pc = "done", !.dsCalls = @ + 1, !.dsErr = r.err,
                    !.res = IF r0.op = "GetTotalCount" THEN <<0>> ELSE <<>>,
                    !.err = r.err]
    ELSE [r0 EXCEPT !.pc = "set", !.dsCalls = @ + 1, !.dsVal = r.val, !.res = r.val]

DSRead(p, down) ==
    /\ NoneDone
    /\ req[p].pc = "ds"
    /\ req' = [req EXCEPT ![p] = AfterRead(req[p], baseRead(req[p].op, req[p].a, down))]
    /\ UNCHANGED <<users, nextID, views, cache, started, events, boot>>

\* AfterSet returning the error of SET.
AfterSetChecked(r0, up) ==
    [r0 EXCEPT !.pc = "done", !.sets = @ \cup {r0.key}, !.stored = up,
               !.cacheOk = @ /\ up,
               !.res = IF up THEN @ ELSE <<>>,
               !.err = IF up THEN @ ELSE "redis: connection refused"]

\* Where a read stands after "Store in cache": the outcome of SET is not
\* looked at.
AfterSet(r0, up) ==
    [r0 EXCEPT !.pc = "done", !.sets = @ \cup {r0.key}, !.stored = up,
               !.cacheOk = @ /\ up]

\* CacheSet storing only what the Data Source still holds.
CacheSetRevalidated(p, up) ==
    /\ NoneDone
    /\ req[p].pc = "set"
    /\ cache' = IF req[p].res = baseRead(req[p].op, req[p].a, FALSE).val
                THEN redisSet(req[p].key, Marshal(KindOf(req[p].op), req[p].res[1]),
                              TTL, up)
                ELSE cache
    /\ req' = [req EXCEPT ![p] = AfterSet(req[p], up)]
    /\ UNCHANGED <<users, nextID, views, started, events, boot>>

CacheSet(p, up) ==
    /\ NoneDone
    /\ req[p].pc = "set"
    /\ cache' = redisSet(req[p].key, Marshal(KindOf(req[p].op), req[p].res[1]), TTL, up)
    /\ req' = [req EXCEPT ![p] = AfterSet(req[p], up)]
    /\ UNCHANGED <<users, nextID, views, started, events, boot>>

\* OwnKeys with no key of their own for Update and Delete.
OwnKeysListOnly(op, a) ==
    IF op = "IncrementViewCount" THEN {getPostCacheKey(a.id)} ELSE {}

\* The keys a write deletes first, once the Data Source has written.
OwnKeys(op, a) ==
    CASE op = "Create" -> {}
      [] op \in {"Update", "Delete"} -> {getCacheKey(a.id)}
      [] OTHER -> {getPostCacheKey(a.id)}

\* AfterWrite invalidating whatever the wrapped repository answered.
AfterWriteAlways(op, a, e) ==
    [Idle EXCEPT !.op = op, !.a = a, !.dsCalls = 1, !.dsErr = e, !.err = e,
                 !.pc = IF OwnKeys(op, a) = {} THEN "del2" ELSE "del1"]

\* AfterWrite going past the DEL of the entity's own key.
AfterWriteSkipOwn(op, a, e) ==
    LET r0 == [Idle EXCEPT !.op = op, !.a = a, !.dsCalls = 1]
    IN  IF e # NoErr
        THEN [r0 EXCEPT !.pc = "done", !.dsErr = e, !.err = e]
        ELSE [r0 EXCEPT !.pc = IF op = "IncrementViewCount" THEN "keys" ELSE "del2",
                        !.a = IF op = "Create" THEN [a EXCEPT !.id = nextID] ELSE a]

\* AfterWrite of a method that deletes the entity's own key before it has the
\* wrapped repository write.
AfterWriteDelFirst(op, a, e) ==
    LET r0 == [Idle EXCEPT !.op = op, !.a = a, !.dsCalls = 1,
                           !.dels = OwnKeys(op, a)]
    IN  IF e # NoErr
        THEN [r0 EXCEPT !.pc = "done", !.dsErr = e, !.err = e]
        ELSE [r0 EXCEPT !.pc = IF OwnKeys(op, a) = {} THEN "del2" ELSE "del1",
                        !.a = IF op = "Create" THEN [a EXCEPT !.id = nextID] ELSE a]

\* AfterWrite not reading the id MySQL assigned to the new row.
AfterWriteNoID(op, a, e) ==
    LET r0 == [Idle EXCEPT !.op = op, !.a = a, !.dsCalls = 1]
    IN  IF e # NoErr
        THEN [r0 EXCEPT !.pc = "done", !.dsErr = e, !.err = e]
        ELSE [r0 EXCEPT !.pc = IF OwnKeys(op, a) = {} THEN "del2" ELSE "del1"]

\* Where a write stands after the wrapped repository's write: on an error it
\* returns it.  Create learns the id of the new row.
AfterWrite(op, a, e) ==
    LET r0 == [Idle EXCEPT !.op = op, !.a = a, !.dsCalls = 1]
    IN  IF e # NoErr
        THEN [r0 EXCEPT !.pc = "done", !.dsErr = e, !.err = e]
        ELSE [r0 EXCEPT !.pc = IF OwnKeys(op, a) = {} THEN "del2" ELSE "del1",
                        !.a = IF op = "Create" THEN [a EXCEPT !.id = nextID] ELSE a]

\* The entries once the Data Source has been written: all of them are older
\* than the Data Source now.
Aged(c) == [k \in Keys |-> IF c[k].present THEN [c[k] EXCEPT !.old = TRUE] ELSE c[k]]

\* A write method is called and has the wrapped repository write.
DSWrite(p, op, a, down) ==
    /\ Called(p, op, a)
    /\ LET e == baseWriteErr(op, a, down)
       IN  /\ req' = Begun(p, AfterWrite(op, a, e))
           /\ IF e # NoErr
              THEN UNCHANGED <<users, nextID, views, cache>>
              ELSE /\ users' = baseWriteUsers(op, a)
                   /\ views' = baseWriteViews(op, a)
                   /\ nextID' = IF op = "Create" THEN nextID + 1 ELSE nextID
                   /\ cache' = Aged(cache)
    /\ UNCHANGED <<events, boot>>

\* AfterDelOwn returning when the DEL has failed.
AfterDelOwnAbort(r0, up) ==
    [r0 EXCEPT !.pc = IF ~up THEN "done"
                      ELSE IF r0.op = "IncrementViewCount" THEN "keys" ELSE "del2",
               !.dels = @ \cup OwnKeys(r0.op, r0.a),
               !.gone = @ \cup Removed(OwnKeys(r0.op, r0.a), up), !.cacheOk = @ /\ up]

\* Where a write stands after the DEL of the entity's own key.
AfterDelOwn(r0, up) ==
    [r0 EXCEPT !.pc = IF r0.op = "IncrementViewCount" THEN "keys" ELSE "del2",
               !.dels = @ \cup OwnKeys(r0.op, r0.a),
               !.gone = @ \cup Removed(OwnKeys(r0.op, r0.a), up), !.cacheOk = @ /\ up]

\* Write: DEL of the entity's own key.
DelOwn(p, up) ==
    /\ NoneDone
    /\ req[p].pc = "del1"
    /\ cache' = redisDel(OwnKeys(req[p].op, req[p].a), up)
    /\ req' = [req EXCEPT ![p] = AfterDelOwn(req[p], up)]
    /\ UNCHANGED <<users, nextID, views, started, events, boot>>

\* AfterDelList returning the error of DEL.
AfterDelListChecked(r0, up) ==
    [r0 EXCEPT !.pc = "done", !.dels = @ \cup {UsersAllKey},
               !.gone = @ \cup Removed({UsersAllKey}, up), !.cacheOk = @ /\ up,
               !.err = IF up THEN @ ELSE "redis: connection refused"]

\* Where a user write stands after DEL users:all.
AfterDelList(r0, up) ==
    [r0 EXCEPT !.pc = "done", !.dels = @ \cup {UsersAllKey},
               !.gone = @ \cup Removed({UsersAllKey}, up), !.cacheOk = @ /\ up]

\* DelList writing the new list through to users:all.
DelListWriteThrough(p, up) ==
    /\ NoneDone
    /\ req[p].pc = "del2"
    /\ cache' = redisSet(UsersAllKey, Marshal("users", baseFindAll.val[1]), TTL, up)
    /\ req' = [req EXCEPT ![p] = AfterDelList(req[p], up)]
    /\ UNCHANGED <<users, nextID, views, started, events, boot>>

\* User write: DEL users:all.
DelList(p, up) ==
    /\ NoneDone
    /\ req[p].pc = "del2"
    /\ cache' = redisDel({UsersAllKey}, up)
    /\ req' = [req EXCEPT ![p] = AfterDelList(req[p], up)]
    /\ UNCHANGED <<users, nextID, views, started, events, boot>>

\* AfterScan without the DEL of the keys found.
AfterScanNoDel(r0, ks, up) ==
    [r0 EXCEPT !.pc = "done", !.scanned = TRUE, !.keys = ks, !.cacheOk = @ /\ up]

\* Where IncrementViewCount stands after KEYS posts:*: with no key there is
\* no second DEL.
AfterScan(r0, ks, up) ==
    [r0 EXCEPT !.pc = IF ks = {} THEN "done" ELSE "delk",
               !.scanned = TRUE, !.keys = ks, !.cacheOk = @ /\ up]

\* IncrementViewCount: KEYS posts:*.
ScanKeys(p, up) ==
    /\ NoneDone
    /\ req[p].pc = "keys"
    /\ req' = [req EXCEPT ![p] = AfterScan(req[p], redisKeysPosts(up), up)]
    /\ UNCHANGED <<users, nextID, views, cache, started, events, boot>>

\* Where IncrementViewCount stands after the DEL of the scanned keys.
AfterDelKeys(r0, up) ==
    [r0 EXCEPT !.pc = "done", !.dels = @ \cup r0.keys,
               !.gone = @ \cup Removed(r0.keys, up), !.cacheOk = @ /\ up]

\* IncrementViewCount: DEL of the keys the scan returned.
DelKeys(p, up) ==
    /\ NoneDone
    /\ req[p].pc = "delk"
    /\ cache' = redisDel(req[p].keys, up)
    /\ req' = [req EXCEPT ![p] = AfterDelKeys(req[p], up)]
    /\ UNCHANGED <<users, nextID, views, started, events, boot>>

\* The caller has the result; the goroutine is free for the next request.
Respond(p) ==
    /\ req[p].pc = "done"
    /\ req' = [req EXCEPT ![p] = Idle]
    /\ UNCHANGED <<users, nextID, views, cache, started, events, boot>>

(* ----------------------------- environment ---------------------------- *)

\* The clock is looked at a minute on, or a whole TTL on.
Advances == {1, TTL}

\* d minutes pass: Redis drops the entries whose TTL has run out.
Tick(d) ==
    /\ NoneDone
    /\ events < MaxEvents
    /\ \E k \in Keys : cache[k].present
    /\ events' = events + 1
    /\ cache' = [k \in Keys |->
                    IF cache[k].present /\ cache[k].ttl > d
                    THEN [cache[k] EXCEPT !.ttl = @ - d]
                    ELSE NoEntry]
    /\ UNCHANGED <<users, nextID, views, req, started, boot>>

\* Something else overwrites an entry with a payload the reader cannot decode.
Corrupt(k) ==
    /\ NoneDone
    /\ events < MaxEvents
    /\ cache[k].present
    /\ events' = events + 1
    /\ cache' = [cache EXCEPT ![k].data = Garbage]
    /\ UNCHANGED <<users, nextID, views, req, started, boot>>

(* ---------------------------- specification --------------------------- *)

\* After construction: the seeded users table, every post unviewed, Redis cold.
Init ==
    /\ users = [i \in UserIDs |-> IF i = 1 THEN "A" ELSE NoUser]
    /\ nextID = 2
    /\ views = [i \in PostIDs |-> 0]
    /\ cache = [k \in Keys |-> NoEntry]
    /\ req = [p \in Procs |-> Idle]
    /\ started = 0
    /\ events = 0
    /\ boot = Booted

\* Requests one after another.
Next ==
    \/ \E p \in Procs, op \in ReadOps, up \in BOOLEAN :
            \E a \in ArgsOf(op) : Quiet(p) /\ CacheGet(p, op, a, up)
    \/ \E p \in Procs, down \in BOOLEAN : DSRead(p, down)
    \/ \E p \in Procs, up \in BOOLEAN : CacheSet(p, up)
    \/ \E p \in Procs, op \in WriteOps, down \in BOOLEAN :
            \E a \in ArgsOf(op) : Quiet(p) /\ DSWrite(p, op, a, down)
    \/ \E p \in Procs, up \in BOOLEAN : DelOwn(p, up)
    \/ \E p \in Procs, up \in BOOLEAN : DelList(p, up)
    \/ \E p \in Procs, up \in BOOLEAN : ScanKeys(p, up)
    \/ \E p \in Procs, up \in BOOLEAN : DelKeys(p, up)
    \/ \E p \in Procs : Respond(p)
    \/ \E d \in Advances : Tick(d)
    \/ \E k \in Keys : Corrupt(k)

Spec == Init /\ [][Next]_vars

(* --------------------- key derivation on its own ---------------------- *)

\* Parameters a caller may pass: ids of one and two digits, slugs that hold
\* the delimiter and the parameter names of the keys, pages whose digits run
\* into each other when a delimiter is lost.
KeyIDs == {1, 2, 11, 12}
KeySlugs == {"a", "a:limit=1", "a:limit=1:offset=0", "all", "1", "slug:1"}
KeyLimits == {1, 11}
KeyOffsets == {0, 1, 10}

KeyArgsOf(op) ==
    CASE op = "FindAll" -> {NoArgs}
      [] op \in {"FindByID", "FindByIDWithDetails"} ->
            {[NoArgs EXCEPT !.id = i] : i \in KeyIDs}
      [] op = "FindAllWithDetails" ->
            {[NoArgs EXCEPT !.limit = l, !.offset = o] : l \in KeyLimits, o \in KeyOffsets}
      [] op = "FindBySlugWithDetails" -> {[NoArgs EXCEPT !.slug = g] : g \in KeySlugs}
      [] op \in {"FindByCategoryWithDetails", "FindByTagWithDetails"} ->
            {[NoArgs EXCEPT !.slug = g, !.limit = l, !.offset = o] :
                g \in KeySlugs, l \in KeyLimits, o \in KeyOffsets}
      [] op = "FindFeaturedWithDetails" ->
            {[NoArgs EXCEPT !.limit = l] : l \in KeyLimits}
      [] OTHER -> {NoArgs}

\* The calls whose keys are compared: one per goroutine.
KeyCalls == UNION {{[Idle EXCEPT !.op = op, !.a = a] : a \in KeyArgsOf(op)} : op \in ReadOps}

InitKey ==
    /\ users = [i \in UserIDs |-> NoUser]
    /\ nextID = 1
    /\ views = [i \in PostIDs |-> 0]
    /\ cache = [k \in Keys |-> NoEntry]
    /\ req \in [Procs -> KeyCalls]
    /\ started = 0
    /\ events = 0
    /\ boot = Booted

\* The first statement of a read method: cacheKey := fmt.Sprintf(...).
DeriveKey(p) ==
    /\ req[p].pc = "idle"
    /\ req' = [req EXCEPT ![p].pc = "keyed", ![p].key = cacheKey(req[p].op, req[p].a)]
    /\ UNCHANGED <<users, nextID, views, cache, started, events, boot>>

NextKey == \E p \in Procs : DeriveKey(p)

SpecKey == InitKey /\ [][NextKey]_vars

(* ------------------------ handlers and usecases ------------------------ *)

UserReadHandlers == {"GetUsers", "GetUserById"}
UserWriteHandlers == {"CreateUser", "UpdateUser", "DeleteUser"}
DetailHandlers == {"GetPostByID", "GetPostBySlug"}
PostHandlers ==
    DetailHandlers \cup {"GetPosts", "GetPostsByCategory", "GetPostsByTag",
                         "GetFeaturedPosts"}
ReadHandlers == UserReadHandlers \cup PostHandlers
Handlers == ReadHandlers \cup UserWriteHandlers

\* no_cache as a request carries it ("" when the parameter is absent).
NoCacheParams == {"", "true", "1", "false", "TRUE", "0"}

\* no_cache of the requests served: absent or set.  The user read handlers
\* are handed it as a *bool ("" is the nil pointer).
NoCacheOf(h) == {"", "true"}

\* parseNoCache accepting any spelling of true.
parseNoCacheAnyCase(q) == q \in {"true", "TRUE", "1"}

\* parseNoCache: noCache == "true" || noCache == "1"
parseNoCache(q) == q = "true" \/ q = "1"

\* The two usecases main wires: one over the cached repository, one over the
\* MySQL repository.
CachedUsecase == "cached"
DirectUsecase == "direct"

selectUsecase(noCache) == IF noCache THEN DirectUsecase ELSE CachedUsecase

\* UsecaseOf with the write handlers looking at no_cache as the read handlers do.
UsecaseOfAnyHandler(h, q) ==
    IF h \in PostHandlers THEN selectUsecase(parseNoCache(q))
    ELSE selectUsecase(q = "true")

\* The usecase each handler calls: the post read handlers by selectUsecase,
\* the user read handlers by params.NoCache != nil && *params.NoCache, the
\* user write handlers always the cached one.
UsecaseOf(h, q) ==
    IF h \in PostHandlers THEN selectUsecase(parseNoCache(q))
    ELSE IF h \in UserReadHandlers THEN selectUsecase(q = "true")
    ELSE CachedUsecase

\* (page, pageSize) of the paginated handlers
HandlerPages == {<<0, 1>>, <<2, 1>>}
HandlerSlugPages == {<<1, 2>>}

MaxInt == 2 ^ (IntBits - 1) - 1
MinInt == 0 - 2 ^ (IntBits - 1)

\* An int after an arithmetic operation: Go wraps around on overflow.
WrapInt(n) == ((n - MinInt) % (2 ^ IntBits)) + MinInt

\* The usecases' normalisation of page and pageSize: (limit, offset), with
\* offset := (page - 1) * pageSize in int arithmetic.
PageArgs(page, pageSize) ==
    LET pg == IF page < 1 THEN 1 ELSE page
        sz == IF pageSize < 1 \/ pageSize > 100 THEN 20 ELSE pageSize
    IN  [NoArgs EXCEPT !.limit = sz, !.offset = WrapInt((pg - 1) * sz)]

\* GetFeaturedPosts' normalisation of limit.
FeaturedArgs(limit) ==
    [NoArgs EXCEPT !.limit = IF limit < 1 \/ limit > 50 THEN 10 ELSE limit]

\* The repository call a usecase method makes first.
FirstOp(h) ==
    CASE h = "GetUsers" -> "FindAll"
      [] h \in {"GetUserById", "UpdateUser"} -> "FindByID"
      [] h = "CreateUser" -> "Create"
      [] h = "DeleteUser" -> "Delete"
      [] h = "GetPosts" -> "FindAllWithDetails"
      [] h = "GetPostByID" -> "FindByIDWithDetails"
      [] h = "GetPostBySlug" -> "FindBySlugWithDetails"
      [] h = "GetPostsByCategory" -> "FindByCategoryWithDetails"
      [] h = "GetPostsByTag" -> "FindByTagWithDetails"
      [] OTHER -> "FindFeaturedWithDetails"

\* The parameters of the first repository call, for the requests of the model.
CallsOf(h) ==
    CASE h = "UpdateUser" -> ArgsOf("Update")
      [] h = "GetPosts" -> {PageArgs(pg[1], pg[2]) : pg \in HandlerPages}
      [] h \in {"GetPostsByCategory", "GetPostsByTag"} ->
            {[PageArgs(pg[1], pg[2]) EXCEPT !.slug = s] :
                pg \in HandlerSlugPages,
                s \in IF h = "GetPostsByTag" THEN TagSlugs ELSE CategorySlugs}
      [] h = "GetFeaturedPosts" -> {FeaturedArgs(l) : l \in FeaturedLimits}
      [] OTHER -> ArgsOf(FirstOp(h))

\* UsecaseErr with the user usecase wrapping its repository's error too.
UsecaseErrWrapsAll(h, op, e) == "failed to " \o op \o ": " \o e

\* fmt.Errorf("...: %w", err) of the post usecase; the user usecase returns
\* the repository's error as it is.
UsecaseErr(h, op, e) ==
    CASE h = "GetPosts" /\ op = "FindAllWithDetails" -> "failed to get posts: " \o e
      [] h = "GetPosts" -> "failed to get total count: " \o e
      [] h \in DetailHandlers -> "failed to get post: " \o e
      [] h = "GetPostsByCategory" -> "failed to get posts by category: " \o e
      [] h = "GetPostsByTag" -> "failed to get posts by tag: " \o e
      [] h = "GetFeaturedPosts" -> "failed to get featured posts: " \o e
      [] OTHER -> e

\* The status the handler answers with.
StatusOf(h, e) ==
    CASE e = NoErr ->
            IF h = "CreateUser" THEN 201 ELSE IF h = "DeleteUser" THEN 204 ELSE 200
      [] h \in DetailHandlers -> 404
      [] h \in {"GetUserById", "UpdateUser", "DeleteUser"} /\ e = ErrNoRows -> 404
      [] OTHER -> 500

\* What the handler and the usecase keep across a repository call.
Tagged(r, h, q, uc, alone, ret) ==
    [r EXCEPT !.h = h, !.q = q, !.uc = uc, !.alone = alone, !.ret = ret]

\* Where a read of the MySQL repository stands once it has answered.
AfterBaseRead(op, a, r) ==
    [Idle EXCEPT !.op = op, !.a = a, !.pc = "done", !.dsCalls = 1,
                 !.dsVal = r.val, !.dsErr = r.err, !.err = r.err,
                 !.res = IF r.err # NoErr /\ op = "GetTotalCount" THEN <<0>>
                         ELSE r.val]

\* Where a write of the MySQL repository stands once it has answered.
AfterBaseWrite(op, a, e) ==
    [Idle EXCEPT !.op = op, !.pc = "done", !.dsCalls = 1, !.dsErr = e, !.err = e,
                 !.a = IF op = "Create" /\ e = NoErr THEN [a EXCEPT !.id = nextID]
                       ELSE a]

\* repoRead with every usecase over the cached repository.
repoReadCachedOnly(uc, op, a, works) ==
    AfterGet(op, a, redisGet(cacheKey(op, a), works))

\* The first step of a read of the usecase's repository: the cached one looks
\* its key up, the MySQL one queries; works: the store it goes to answers.
repoRead(uc, op, a, works) ==
    IF uc = CachedUsecase THEN AfterGet(op, a, redisGet(cacheKey(op, a), works))
    ELSE AfterBaseRead(op, a, baseRead(op, a, ~works))

\* repoWrite with every usecase over the cached repository.
repoWriteCachedOnly(uc, op, a, e) == AfterWrite(op, a, e)

\* The first step of a write of the usecase's repository: both have MySQL
\* write, the cached one goes on to invalidate.
repoWrite(uc, op, a, e) ==
    IF uc = CachedUsecase THEN AfterWrite(op, a, e) ELSE AfterBaseWrite(op, a, e)

\* No handler is running (goroutines the usecases started may be).
NoRequest == \A p \in Procs : req[p].h \in {"", "go"}

\* A response is written before anything else happens.
NoneOut == \A p \in Procs : req[p].pc # "out"

\* The posts a detail read can return.
Target(h, a) ==
    IF h = "GetPostByID" THEN {a.id} \cap PostIDs
    ELSE {i \in PostIDs : PostSlug[i] = a.slug}

\* A detail read is taken when a goroutine is free for its increment and the
\* view count it would raise is under its cap.
CanServe(p, h, a) ==
    h \in DetailHandlers =>
        /\ \A o \in Others(p) : req[o].pc = "idle"
        /\ \A i \in Target(h, a) : views[i] < MaxViews

\* A handler is called.
Served(p, h, a) ==
    /\ NoRequest /\ NoneOut
    /\ CanServe(p, h, a)
    /\ Called(p, FirstOp(h), a)

\* A read handler (or UpdateUser, which reads the user first) picks its
\* usecase, and the usecase calls its repository.
ServeRead(p, h, a, q, works) ==
    /\ h \in ReadHandlers \cup {"UpdateUser"}
    /\ Served(p, h, a)
    /\ LET uc == UsecaseOf(h, q)
       IN  req' = Begun(p, Tagged(repoRead(uc, FirstOp(h), a, works),
                                  h, q, uc, Quiet(p), <<>>))
    /\ UNCHANGED <<users, nextID, views, cache, events, boot>>

\* The tables and the entries' age once the wrapped repository's write has
\* answered e.
Written(op, a, e) ==
    IF e # NoErr THEN UNCHANGED <<users, nextID, views, cache>>
    ELSE /\ users' = baseWriteUsers(op, a)
         /\ views' = baseWriteViews(op, a)
         /\ nextID' = IF op = "Create" THEN nextID + 1 ELSE nextID
         /\ cache' = Aged(cache)

\* CreateUser and DeleteUser: the usecase calls its repository's write.
ServeWrite(p, h, a, q, down) ==
    /\ h \in {"CreateUser", "DeleteUser"}
    /\ Served(p, h, a)
    /\ LET uc == UsecaseOf(h, q)
           e == baseWriteErr(FirstOp(h), a, down)
       IN  /\ req' = Begun(p, Tagged(repoWrite(uc, FirstOp(h), a, e),
                                     h, q, uc, Quiet(p), <<>>))
           /\ Written(FirstOp(h), a, e)
    /\ UNCHANGED <<events, boot>>

\* The repository call has returned and the usecase makes another one.
Continues(r) ==
    /\ r.pc = "done" /\ r.err = NoErr
    /\ \/ r.h = "UpdateUser" /\ r.op = "FindByID"
       \/ r.h = "GetPosts" /\ r.op = "FindAllWithDetails"

\* UpdateUser: the user found takes the name given, if one is given (name is
\* a *string: "" stands for nil, a request that supplies other fields only),
\* and goes to Update.
UpdateFound(p, down) ==
    /\ Continues(req[p]) /\ req[p].h = "UpdateUser"
    /\ LET r0 == req[p]
           user == IF r0.a.name = "" THEN r0.res[1]
                   ELSE [r0.res[1] EXCEPT !.name = r0.a.name]
           a == [NoArgs EXCEPT !.id = user.id, !.name = user.name]
           e == baseWriteErr("Update", a, down)
       IN  /\ req' = [req EXCEPT ![p] =
                        Tagged(repoWrite(r0.uc, "Update", a, e), r0.h, r0.q, r0.uc,
                               r0.alone /\ Quiet(p), <<user>>)]
           /\ Written("Update", a, e)
    /\ UNCHANGED <<started, events, boot>>

\* GetPosts: with the page in hand the usecase asks for the total count.
CountPosts(p, works) ==
    /\ Continues(req[p]) /\ req[p].h = "GetPosts"
    /\ LET r0 == req[p]
       IN  req' = [req EXCEPT ![p] =
                     Tagged(repoRead(r0.uc, "GetTotalCount", NoArgs, works),
                            r0.h, r0.q, r0.uc, r0.alone /\ Quiet(p), r0.res)]
    /\ UNCHANGED <<users, nextID, views, cache, started, events, boot>>

\* What the usecase returns once its last repository call has returned.
UsecaseRet(r) ==
    IF r.err # NoErr THEN <<>>
    ELSE CASE r.h = "GetPosts" -> r.ret \o r.res
           [] r.h = "UpdateUser" -> r.ret
           [] r.h = "CreateUser" -> <<[id |-> r.a.id, name |-> r.a.name]>>
           [] r.h = "DeleteUser" -> <<>>
           [] OTHER -> r.res

\* Finished without the go statement.
FinishedNoTask(r) ==
    [r EXCEPT !.pc = "out", !.ret = UsecaseRet(r),
              !.retErr = IF r.err = NoErr THEN NoErr ELSE UsecaseErr(r.h, r.op, r.err),
              !.status = StatusOf(r.h, r.err)]

\* Where a request stands once the usecase has returned: a detail read that
\* found its post has started one goroutine.
Finished(r) ==
    [r EXCEPT !.pc = "out", !.ret = UsecaseRet(r),
              !.retErr = IF r.err = NoErr THEN NoErr ELSE UsecaseErr(r.h, r.op, r.err),
              !.status = StatusOf(r.h, r.err),
              !.tasks = IF r.h \in DetailHandlers /\ r.err = NoErr THEN 1 ELSE 0]

\* go func() { _ = u.postRepo.IncrementViewCount(context.Background(), id) }():
\* GetPostByID passes the id it was called with, GetPostBySlug post.ID.
Task(r) ==
    [Idle EXCEPT !.pc = "go", !.h = "go", !.uc = r.uc, !.op = "IncrementViewCount",
                 !.a = [NoArgs EXCEPT !.id = IF r.h = "GetPostByID" THEN r.a.id
                                              ELSE r.res[1].id]]

\* The usecase returns and the handler writes the response.
Finish(p) ==
    /\ req[p].pc = "done" /\ req[p].h \in Handlers
    /\ ~Continues(req[p])
    /\ LET r == Finished(req[p])
           t == CHOOSE o \in Procs : o # p
       IN  req' = [o \in Procs |->
                     IF o = p THEN r
                     ELSE IF r.tasks > 0 /\ o = t THEN Task(req[p])
                     ELSE req[o]]
    /\ UNCHANGED <<users, nextID, views, cache, started, events, boot>>

\* The response is with the client; the goroutine is free.
Reply(p) ==
    /\ req[p].pc = "out"
    /\ req' = [req EXCEPT ![p] = Idle]
    /\ UNCHANGED <<users, nextID, views, cache, started, events, boot>>

\* The started goroutine runs: IncrementViewCount of the usecase's repository.
TaskRun(t, down) ==
    /\ NoneDone /\ NoneOut
    /\ req[t].pc = "go"
    /\ views[req[t].a.id] < MaxViews
    /\ LET r0 == req[t]
           e == baseWriteErr(r0.op, r0.a, down)
       IN  /\ req' = Begun(t, Tagged(repoWrite(r0.uc, r0.op, r0.a, e),
                                     r0.h, r0.q, r0.uc, Quiet(t), <<>>))
           /\ Written(r0.op, r0.a, e)
    /\ UNCHANGED <<started, events, boot>>

\* The goroutine ends; what IncrementViewCount returned is dropped.
TaskEnd(t) ==
    /\ req[t].pc = "done" /\ req[t].h = "go"
    /\ req' = [req EXCEPT ![t] = Idle]
    /\ UNCHANGED <<users, nextID, views, cache, started, events, boot>>

\* Requests over HTTP, one after another; the goroutines they start run on
\* beside the requests that follow.
NextAPI ==
    \/ \E p \in Procs, h \in Handlers, works \in BOOLEAN :
            \E a \in CallsOf(h), q \in NoCacheOf(h) : ServeRead(p, h, a, q, works)
    \/ \E p \in Procs, h \in Handlers, down \in BOOLEAN :
            \E a \in CallsOf(h), q \in NoCacheOf(h) : ServeWrite(p, h, a, q, down)
    \/ \E p \in Procs, down \in BOOLEAN : UpdateFound(p, down)
    \/ \E p \in Procs, works \in BOOLEAN : CountPosts(p, works)
    \/ \E p \in Procs : Finish(p)
    \/ \E p \in Procs : Reply(p)
    \/ \E t \in Procs, down \in BOOLEAN : TaskRun(t, down)
    \/ \E t \in Procs : TaskEnd(t)
    \/ \E p \in Procs, down \in BOOLEAN : NoneOut /\ DSRead(p, down)
    \/ \E p \in Procs, up \in BOOLEAN : NoneOut /\ CacheSet(p, up)
    \/ \E p \in Procs, up \in BOOLEAN : NoneOut /\ DelOwn(p, up)
    \/ \E p \in Procs, up \in BOOLEAN : NoneOut /\ DelList(p, up)
    \/ \E p \in Procs, up \in BOOLEAN : NoneOut /\ ScanKeys(p, up)
    \/ \E p \in Procs, up \in BOOLEAN : NoneOut /\ DelKeys(p, up)

SpecAPI == Init /\ [][NextAPI]_vars

(* --------------------- usecase selection on its own -------------------- *)

\* The calls whose usecase is selected: a post read handler and the no_cache
\* of the request, one per goroutine.
FlagCalls == {[Idle EXCEPT !.h = h, !.q = q] : h \in PostHandlers, q \in NoCacheParams}

InitFlag ==
    /\ users = [i \in UserIDs |-> NoUser]
    /\ nextID = 1
    /\ views = [i \in PostIDs |-> 0]
    /\ cache = [k \in Keys |-> NoEntry]
    /\ req \in [Procs -> FlagCalls]
    /\ started = 0
    /\ events = 0
    /\ boot = Booted

\* noCache := parseNoCache(c); uc := h.selectUsecase(noCache)
Select(p) ==
    /\ req[p].pc = "idle"
    /\ req' = [req EXCEPT ![p].pc = "selected", ![p].uc = UsecaseOf(req[p].h, req[p].q)]
    /\ UNCHANGED <<users, nextID, views, cache, started, events, boot>>

NextFlag == \E p \in Procs : Select(p)

SpecFlag == InitFlag /\ [][NextFlag]_vars

(* --------------------------- a warm cache ------------------------------ *)

\* After construction and the first reads through the decorators: user 1 and
\* the featured list are cached.
InitWarm ==
    /\ users = [i \in UserIDs |-> IF i = 1 THEN "A" ELSE NoUser]
    /\ nextID = 2
    /\ views = [i \in PostIDs |-> 0]
    /\ cache = [k \in Keys |->
                    IF k = getCacheKey(1)
                    THEN Entry(MarshalUser([id |-> 1, name |-> "A"]), TTL)
                    ELSE IF k = PostsFeaturedKey(1)
                    THEN Entry(MarshalArray(<<MarshalPost([id |-> 2, slug |-> "b",
                                                          viewCount |-> 0])>>), TTL)
                    ELSE NoEntry]
    /\ req = [p \in Procs |-> Idle]
    /\ started = 0
    /\ events = 0
    /\ boot = Booted

\* What UpdateUser is called with: the id, and the name or none.
UpdateCalls == ArgsOf("Update") \cup ArgsOf("FindByID")

\* UpdateUser requests one after another, each through the cache-backed
\* usecase: FindByID, then Update.
NextUpdate ==
    \/ \E p \in Procs, works \in BOOLEAN :
            \E a \in UpdateCalls, q \in NoCacheOf("UpdateUser") :
                ServeRead(p, "UpdateUser", a, q, works)
    \/ \E p \in Procs, down \in BOOLEAN : NoneOut /\ DSRead(p, down)
    \/ \E p \in Procs, up \in BOOLEAN : NoneOut /\ CacheSet(p, up)
    \/ \E p \in Procs, down \in BOOLEAN : UpdateFound(p, down)
    \/ \E p \in Procs, up \in BOOLEAN : NoneOut /\ DelOwn(p, up)
    \/ \E p \in Procs, up \in BOOLEAN : NoneOut /\ DelList(p, up)
    \/ \E p \in Procs : Finish(p)
    \/ \E p \in Procs : Reply(p)

SpecUpdate == InitWarm /\ [][NextUpdate]_vars

\* The calls of every method one after another, every store call free to
\* fail, on a warm cache: both decorators have entries in the one keyspace.
NextWarm ==
    \/ \E p \in Procs, op \in ReadOps, up \in BOOLEAN :
            \E a \in ArgsOf(op) : Quiet(p) /\ CacheGet(p, op, a, up)
    \/ \E p \in Procs, down \in BOOLEAN : DSRead(p, down)
    \/ \E p \in Procs, up \in BOOLEAN : CacheSet(p, up)
    \/ \E p \in Procs, op \in WriteOps, down \in BOOLEAN :
            \E a \in ArgsOf(op) : Quiet(p) /\ DSWrite(p, op, a, down)
    \/ \E p \in Procs, up \in BOOLEAN : DelOwn(p, up)
    \/ \E p \in Procs, up \in BOOLEAN : DelList(p, up)
    \/ \E p \in Procs, up \in BOOLEAN : ScanKeys(p, up)
    \/ \E p \in Procs, up \in BOOLEAN : DelKeys(p, up)
    \/ \E p \in Procs : Respond(p)

SpecWarm == InitWarm /\ [][NextWarm]_vars

\* Reads of the post lists and view-count increments interleaved step by
\* step, both stores working.
NextScan ==
    \/ \E p \in Procs, op \in {"FindAllWithDetails", "FindFeaturedWithDetails"} :
            \E a \in ArgsOf(op) : CacheGet(p, op, a, TRUE)
    \/ \E p \in Procs : DSRead(p, FALSE)
    \/ \E p \in Procs : CacheSet(p, TRUE)
    \/ \E p \in Procs : \E a \in ArgsOf("IncrementViewCount") :
            DSWrite(p, "IncrementViewCount", a, FALSE)
    \/ \E p \in Procs : DelOwn(p, TRUE)
    \/ \E p \in Procs : ScanKeys(p, TRUE)
    \/ \E p \in Procs : DelKeys(p, TRUE)
    \/ \E p \in Procs : Respond(p)

SpecScan == InitWarm /\ [][NextScan]_vars

(* --------------------------- time going on ----------------------------- *)

\* A minute passes with the entries whose TTL has run out staying in Redis.
MinuteNoExpiry ==
    /\ \E k \in Keys : cache[k].present
    /\ cache' = [k \in Keys |->
                    IF cache[k].present /\ cache[k].ttl > 1
                    THEN [cache[k] EXCEPT !.ttl = @ - 1]
                    ELSE cache[k]]
    /\ UNCHANGED <<users, nextID, views, req, started, events, boot>>

\* A minute passes, whatever the requests are doing: every entry is a minute
\* closer to the end of the TTL it was stored with, and Redis drops those
\* that have reached it.
Minute ==
    /\ \E k \in Keys : cache[k].present
    /\ cache' = [k \in Keys |->
                    IF cache[k].present /\ cache[k].ttl > 1
                    THEN [cache[k] EXCEPT !.ttl = @ - 1]
                    ELSE NoEntry]
    /\ UNCHANGED <<users, nextID, views, req, started, events, boot>>

\* Reads and writes of every method interleaved call by call, every store
\* call free to fail, while time goes on.
NextLive ==
    \/ \E p \in Procs, op \in ReadOps, up \in BOOLEAN :
            \E a \in ArgsOf(op) : CacheGet(p, op, a, up)
    \/ \E p \in Procs, down \in BOOLEAN : DSRead(p, down)
    \/ \E p \in Procs, up \in BOOLEAN : CacheSet(p, up)
    \/ \E p \in Procs, op \in WriteOps, down \in BOOLEAN :
            \E a \in ArgsOf(op) : DSWrite(p, op, a, down)
    \/ \E p \in Procs, up \in BOOLEAN : DelOwn(p, up)
    \/ \E p \in Procs, up \in BOOLEAN : DelList(p, up)
    \/ \E p \in Procs, up \in BOOLEAN : ScanKeys(p, up)
    \/ \E p \in Procs, up \in BOOLEAN : DelKeys(p, up)
    \/ \E p \in Procs : Respond(p)
    \/ Minute

\* Time advances: the clock is not held back for ever.
SpecLive == Init /\ [][NextLive]_vars /\ WF_vars(Minute)

(* --------------------- results that do not serialize ------------------- *)

\* data, _ := json.Marshal(v) when Marshal returns an error (the wrapped
\* repository is any implementation of the interface, and a time.Time with a
\* year past 9999 does not marshal): the error is dropped, data is nil, and
\* Set is called with it.
CacheSetNil(p, up) ==
    /\ NoneDone
    /\ req[p].pc = "set"
    /\ cache' = redisSet(req[p].key, "", TTL, up)
    /\ req' = [req EXCEPT ![p] = [AfterSet(req[p], up) EXCEPT !.enc = FALSE]]
    /\ UNCHANGED <<users, nextID, views, started, events, boot>>

\* Reads one after another whose results may fail to serialize.
NextEnc ==
    \/ \E p \in Procs, op \in ReadOps, up \in BOOLEAN :
            \E a \in ArgsOf(op) : Quiet(p) /\ CacheGet(p, op, a, up)
    \/ \E p \in Procs, down \in BOOLEAN : DSRead(p, down)
    \/ \E p \in Procs, up \in BOOLEAN : CacheSet(p, up)
    \/ \E p \in Procs, up \in BOOLEAN : CacheSetNil(p, up)
    \/ \E p \in Procs : Respond(p)

SpecEnc == Init /\ [][NextEnc]_vars

(* ------------------------- pagination on its own ----------------------- *)

PagedHandlers == {"GetPosts", "GetPostsByCategory", "GetPostsByTag"}

\* page and pageSize a caller may pass: around the limits of the
\* normalisation and at the ends of int (strconv.Atoi answers an overlong
\* digit string with the largest int).
PageInputs == {MinInt, 0, 1, 2, MaxInt \div 2, MaxInt}
SizeInputs == {MinInt, 0, 1, 20, 100, 101, MaxInt}

\* The calls whose pagination is normalised, one per goroutine.
PageCalls ==
    {[Idle EXCEPT !.h = h, !.op = FirstOp(h),
                  !.a = [NoArgs EXCEPT !.page = pg, !.pageSize = sz,
                                       !.slug = IF h = "GetPosts" THEN "" ELSE "c"]] :
        h \in PagedHandlers, pg \in PageInputs, sz \in SizeInputs}

InitPage ==
    /\ users = [i \in UserIDs |-> NoUser]
    /\ nextID = 1
    /\ views = [i \in PostIDs |-> 0]
    /\ cache = [k \in Keys |-> NoEntry]
    /\ req \in [Procs -> PageCalls]
    /\ started = 0
    /\ events = 0
    /\ boot = Booted

\* The usecase normalises page and pageSize and calls its repository with
\* (pageSize, offset); the cached repository derives its key from them.
Paginate(p) ==
    /\ req[p].pc = "idle"
    /\ LET n == PageArgs(req[p].a.page, req[p].a.pageSize)
           a == [req[p].a EXCEPT !.limit = n.limit, !.offset = n.offset]
       IN  req' = [req EXCEPT ![p].pc = "paged", ![p].a = a,
                              ![p].key = cacheKey(req[p].op, a)]
    /\ UNCHANGED <<users, nextID, views, cache, started, events, boot>>

NextPage == \E p \in Procs : Paginate(p)

SpecPage == InitPage /\ [][NextPage]_vars

(* ------------------------------- startup ------------------------------- *)

\* for i := 0; i < 30; i++ in both retry loops
MaxPings == 30

\* main is started: nothing has been pinged.
InitBoot ==
    /\ users = [i \in UserIDs |-> IF i = 1 THEN "A" ELSE NoUser]
    /\ nextID = 2
    /\ views = [i \in PostIDs |-> 0]
    /\ cache = [k \in Keys |-> NoEntry]
    /\ req = [p \in Procs |-> Idle]
    /\ started = 0
    /\ events = 0
    /\ boot = [phase |-> "mysql", dbPings |-> 0, redisPings |-> 0,
               dbOk |-> FALSE, redisOk |-> FALSE]

\* One turn of "Wait for database to be ready": db.Ping(); on success break
\* and go on to Redis, else log, sleep and count.
DBPing(ok) ==
    /\ boot.phase = "mysql" /\ boot.dbPings < MaxPings
    /\ boot' = IF ok THEN [boot EXCEPT !.dbPings = @ + 1, !.dbOk = TRUE,
                                       !.phase = "redis"]
               ELSE [boot EXCEPT !.dbPings = @ + 1]
    /\ UNCHANGED <<users, nextID, views, cache, req, started, events>>

\* The loop has run out with err still set: log.Fatalf.
DBFatal ==
    /\ boot.phase = "mysql" /\ boot.dbPings = MaxPings
    /\ boot' = [boot EXCEPT !.phase = "exited"]
    /\ UNCHANGED <<users, nextID, views, cache, req, started, events>>

\* One turn of "Test Redis connection": on success main goes on to construct
\* the repositories, usecases, handlers and routes.
RedisPing(ok) ==
    /\ boot.phase = "redis" /\ boot.redisPings < MaxPings
    /\ boot' = IF ok THEN [boot EXCEPT !.redisPings = @ + 1, !.redisOk = TRUE,
                                       !.phase = "wired"]
               ELSE [boot EXCEPT !.redisPings = @ + 1]
    /\ UNCHANGED <<users, nextID, views, cache, req, started, events>>

\* RedisFatal going on without the cache.
RedisFatalServes ==
    /\ boot.phase = "redis" /\ boot.redisPings = MaxPings
    /\ boot' = [boot EXCEPT !.phase = "wired"]
    /\ UNCHANGED <<users, nextID, views, cache, req, started, events>>

\* The Redis loop has run out with err still set: log.Fatalf.
RedisFatal ==
    /\ boot.phase = "redis" /\ boot.redisPings = MaxPings
    /\ boot' = [boot EXCEPT !.phase = "exited"]
    /\ UNCHANGED <<users, nextID, views, cache, req, started, events>>

\* e.Start: the server accepts requests, or fails to listen and main exits.
Start(ok) ==
    /\ boot.phase = "wired"
    /\ boot' = [boot EXCEPT !.phase = IF ok THEN "serving" ELSE "exited"]
    /\ UNCHANGED <<users, nextID, views, cache, req, started, events>>

\* The server is accepting requests.
Serving == boot.phase = "serving"

\* main from its start; once the server accepts, reads of the user list one
\* after another.
NextBoot ==
    \/ \E ok \in BOOLEAN : DBPing(ok)
    \/ DBFatal
    \/ \E ok \in BOOLEAN : RedisPing(ok)
    \/ RedisFatal
    \/ \E ok \in BOOLEAN : Start(ok)
    \/ \E p \in Procs, up \in BOOLEAN :
            Serving /\ Quiet(p) /\ CacheGet(p, "FindAll", NoArgs, up)
    \/ \E p \in Procs, down \in BOOLEAN : DSRead(p, down)
    \/ \E p \in Procs, up \in BOOLEAN : CacheSet(p, up)
    \/ \E p \in Procs : Respond(p)

SpecBoot == InitBoot /\ [][NextBoot]_vars

(* ----------------------- the usecases' input guards -------------------- *)

\* The post usecase methods that look at their input first.
GuardedMethods ==
    DetailHandlers \cup {"GetPostsByCategory", "GetPostsByTag"}

\* The error a method's guard returns for its input (NoErr: it goes on):
\* if id <= 0, if slug == "", if categorySlug == "", if tagSlug == "".
UsecaseGuard(h, a) ==
    CASE h = "GetPostByID" /\ a.id <= 0 -> "invalid post ID: " \o FormatInt(a.id)
      [] h = "GetPostBySlug" /\ a.slug = "" -> "slug cannot be empty"
      [] h = "GetPostsByCategory" /\ a.slug = "" -> "category slug cannot be empty"
      [] h = "GetPostsByTag" /\ a.slug = "" -> "tag slug cannot be empty"
      [] OTHER -> NoErr

\* What the methods are called with: the calls of CallsOf, and ids that are
\* not positive and the empty slug.
GuardCallsOf(h) ==
    CallsOf(h) \cup
        CASE h = "GetPostByID" -> {[NoArgs EXCEPT !.id = i] : i \in {0 - 1, 0}}
          [] h = "GetPostBySlug" -> {NoArgs}
          [] OTHER -> {[NoArgs EXCEPT !.page = 1, !.pageSize = 2]}

\* Where a call stands that its guard has turned down: the method has
\* returned nil and the error.
Rejected(h, a, uc, e) ==
    [Idle EXCEPT !.h = h, !.a = a, !.uc = uc, !.pc = "out",
                 !.err = e, !.retErr = e, !.status = StatusOf(h, e)]

\* CallGuarded with the go statement ahead of GetPostByID's guard.
CallGuardedGoFirst(p, h, a, uc, works) ==
    /\ h \in GuardedMethods
    /\ Served(p, h, a)
    /\ LET e == UsecaseGuard(h, a)
           b == Begun(p, IF e # NoErr THEN Rejected(h, a, uc, e)
                         ELSE Tagged(repoRead(uc, FirstOp(h), a, works),
                                     h, "", uc, Quiet(p), <<>>))
       IN  req' = IF e # NoErr /\ h = "GetPostByID"
                  THEN [b EXCEPT ![CHOOSE o \in Procs : o # p] =
                                    Task(Rejected(h, a, uc, e))]
                  ELSE b
    /\ UNCHANGED <<users, nextID, views, cache, events, boot>>

\* A guarded method of either usecase is called: it returns the guard's
\* error, or calls its repository.
CallGuarded(p, h, a, uc, works) ==
    /\ h \in GuardedMethods
    /\ Served(p, h, a)
    /\ LET e == UsecaseGuard(h, a)
       IN  req' = Begun(p, IF e # NoErr THEN Rejected(h, a, uc, e)
                           ELSE Tagged(repoRead(uc, FirstOp(h), a, works),
                                       h, "", uc, Quiet(p), <<>>))
    /\ UNCHANGED <<users, nextID, views, cache, events, boot>>

\* Calls of the guarded methods one after another, with the goroutines the
\* detail reads start.
NextGuard ==
    \/ \E p \in Procs, h \in GuardedMethods, works \in BOOLEAN :
            \E a \in GuardCallsOf(h), uc \in {CachedUsecase, DirectUsecase} :
                CallGuarded(p, h, a, uc, works)
    \/ \E p \in Procs : Finish(p)
    \/ \E p \in Procs : Reply(p)
    \/ \E t \in Procs, down \in BOOLEAN : TaskRun(t, down)
    \/ \E t \in Procs : TaskEnd(t)
    \/ \E p \in Procs, down \in BOOLEAN : NoneOut /\ DSRead(p, down)
    \/ \E p \in Procs, up \in BOOLEAN : NoneOut /\ CacheSet(p, up)
    \/ \E p \in Procs, up \in BOOLEAN : NoneOut /\ DelOwn(p, up)
    \/ \E p \in Procs, up \in BOOLEAN : NoneOut /\ ScanKeys(p, up)
    \/ \E p \in Procs, up \in BOOLEAN : NoneOut /\ DelKeys(p, up)

SpecGuard == Init /\ [][NextGuard]_vars

(* ------------------------- requests side by side ----------------------- *)

\* The calls on users that run side by side: reads of a user and of the
\* list, and Update.
RaceReadOps == UserReadOps

\* Reads and Updates of users interleaved step by step, both stores working:
\* nothing orders the calls of one request against those of another.
NextRace ==
    \/ \E p \in Procs, op \in RaceReadOps :
            \E a \in ArgsOf(op) : CacheGet(p, op, a, TRUE)
    \/ \E p \in Procs : DSRead(p, FALSE)
    \/ \E p \in Procs : CacheSet(p, TRUE)
    \/ \E p \in Procs : \E a \in ArgsOf("Update") : DSWrite(p, "Update", a, FALSE)
    \/ \E p \in Procs : DelOwn(p, TRUE)
    \/ \E p \in Procs : DelList(p, TRUE)
    \/ \E p \in Procs : Respond(p)

SpecRace == Init /\ [][NextRace]_vars

\* Reads of every method interleaved step by step, with no write at all.
NextReads ==
    \/ \E p \in Procs, op \in ReadOps, up \in BOOLEAN :
            \E a \in ArgsOf(op) : CacheGet(p, op, a, up)
    \/ \E p \in Procs, down \in BOOLEAN : DSRead(p, down)
    \/ \E p \in Procs, up \in BOOLEAN : CacheSet(p, up)
    \/ \E p \in Procs : Respond(p)

SpecReads == Init /\ [][NextReads]_vars

(* ------------------------------- claims -------------------------------- *)

ReadDone(p) == req[p].pc = "done" /\ req[p].op \in ReadOps
WriteDone(p) == req[p].pc = "done" /\ req[p].op \in WriteOps

\* The GET of p's read was answered and found a payload that deserializes.
Found(p) ==
    /\ req[p].got # "error"
    /\ req[p].pre.present
    /\ Unmarshal(KindOf(req[p].op), req[p].pre.data).ok

\* What the Data Source answers now to p's read; failed: its connection fails.
DirectRead(p, failed) == baseRead(req[p].op, req[p].a, failed)

(* C1: a read whose key is found in the Cache Store with a payload that     *)
(* deserializes returns the deserialized value with a nil error, and makes  *)
(* no Data Source call (and no SET).                                        *)
HitReturnsCachedValue ==
    \A p \in Procs :
        ReadDone(p) /\ Found(p) =>
            /\ req[p].got = "hit"
            /\ req[p].res = Unmarshal(KindOf(req[p].op), req[p].pre.data).val
            /\ req[p].err = NoErr
            /\ req[p].dsCalls = 0
            /\ req[p].sets = {}

\* A list read has returned the cached list.
HitWitness ==
    \E p \in Procs :
        /\ ReadDone(p) /\ Found(p)
        /\ req[p].op = "FindAllWithDetails"
        /\ req[p].res # <<>> /\ req[p].res[1] # <<>>

(* C2: a read takes the miss path when its key is absent, when its GET      *)
(* fails, or when the payload does not deserialize; on each of the three    *)
(* it makes exactly one Data Source read for its own parameters and returns *)
(* what that read returns, whichever of the three it was.                   *)
MissReadsDataSourceOnce ==
    \A p \in Procs :
        ReadDone(p) /\ ~Found(p) =>
            /\ req[p].got \in {"absent", "error", "corrupt"}
            /\ req[p].dsCalls = 1
            /\ req[p].err = req[p].dsErr
            /\ req[p].alone =>
                  LET d == DirectRead(p, req[p].dsErr = ErrConn)
                  IN  /\ req[p].err = d.err
                      /\ d.err = NoErr => req[p].res = d.val

\* A read has found a payload it could not deserialize and has returned the
\* Data Source's row.
MissWitness ==
    \E p \in Procs :
        /\ ReadDone(p)
        /\ req[p].pre.present /\ req[p].pre.data = Garbage
        /\ req[p].got = "corrupt"
        /\ req[p].err = NoErr /\ req[p].res # <<>>

(* C3: when the Data Source read after a miss fails, the read returns that  *)
(* same error and issues no SET: no entry comes to exist under its key.     *)
NoNegativeCaching ==
    \A p \in Procs :
        ReadDone(p) /\ req[p].dsErr # NoErr =>
            /\ req[p].err = req[p].dsErr
            /\ req[p].err \in {ErrNoRows, ErrConn}
            /\ req[p].sets = {}
            /\ ~req[p].stored
            /\ req[p].alone /\ cache[req[p].key].present => req[p].pre.present

\* FindByID of a user that does not exist has returned sql.ErrNoRows.
NoNegativeCachingWitness ==
    \E p \in Procs :
        /\ ReadDone(p)
        /\ req[p].op = "FindByID"
        /\ req[p].got = "absent"
        /\ req[p].err = ErrNoRows
        /\ ~cache[req[p].key].present

(* C4: a read whose SET fails after a successful Data Source read still     *)
(* returns the Data Source's result with a nil error.                       *)
FailedSetDoesNotFailRead ==
    \A p \in Procs :
        ReadDone(p) /\ req[p].sets # {} /\ ~req[p].stored =>
            /\ req[p].err = NoErr
            /\ req[p].dsCalls = 1
            /\ req[p].res = req[p].dsVal
            /\ req[p].alone => req[p].res = DirectRead(p, FALSE).val

\* A read's SET has failed and the read has returned a user.
FailedSetWitness ==
    \E p \in Procs :
        /\ ReadDone(p)
        /\ req[p].op = "FindByID"
        /\ req[p].sets = {req[p].key} /\ ~req[p].stored
        /\ ~cache[req[p].key].present
        /\ req[p].res = <<[id |-> 1, name |-> "A"]>>

(* C5: read-through.  With no other request in flight, a read that finds no *)
(* entry under its key returns the Data Source's result and leaves it       *)
(* stored under its key for the whole TTL; and a read that finds an entry   *)
(* stored since the last Data Source write, still within its TTL, returns   *)
(* that same result without a Data Source call.                             *)
ReadThrough ==
    \A p \in Procs :
        ReadDone(p) /\ req[p].alone =>
            /\ req[p].got = "absent" /\ req[p].stored =>
                  /\ req[p].err = NoErr
                  /\ req[p].res = DirectRead(p, FALSE).val
                  /\ cache[req[p].key] =
                        Entry(Marshal(KindOf(req[p].op), req[p].res[1]), TTL)
                  /\ Unmarshal(KindOf(req[p].op), cache[req[p].key].data).val = req[p].res
            /\ Found(p) /\ ~req[p].pre.old =>
                  /\ req[p].got = "hit"
                  /\ req[p].err = NoErr
                  /\ req[p].dsCalls = 0
                  /\ req[p].res = DirectRead(p, FALSE).val

\* The second read of a page, a minute after the first one stored it.
ReadThroughWitness ==
    \E p \in Procs :
        /\ ReadDone(p) /\ req[p].alone
        /\ req[p].op = "FindAllWithDetails" /\ req[p].a.offset = 1
        /\ Found(p) /\ ~req[p].pre.old /\ req[p].pre.ttl = TTL - 1
        /\ req[p].dsCalls = 0
        /\ req[p].res = <<<<[id |-> 1, slug |-> "a", viewCount |-> 0]>>>>

(* C6: a write (user Create, Update, Delete; post IncrementViewCount) whose *)
(* Data Source write fails returns that error in the one step it takes:     *)
(* it issues no DEL and no KEYS, and the cache is as it was before the call.*)
FailedWriteStep ==
    \A p \in Procs :
        /\ req[p].pc # "done" /\ req'[p].pc = "done"
        /\ req'[p].op \in WriteOps
        /\ req'[p].err # NoErr
        => /\ req[p].pc = "idle"
           /\ req'[p].err = req'[p].dsErr
           /\ req'[p].err \in {ErrDuplicate, ErrConn}
           /\ req'[p].dels = {} /\ ~req'[p].scanned /\ req'[p].sets = {}
           /\ cache' = cache
           /\ <<users, nextID, views>>' = <<users, nextID, views>>

FailedWriteKeepsCache == [][FailedWriteStep]_vars

\* Create of a taken username has failed with the list of users still cached.
FailedWriteWitness ==
    \E p \in Procs :
        /\ WriteDone(p)
        /\ req[p].op = "Create"
        /\ req[p].err = ErrDuplicate
        /\ req[p].dels = {}
        /\ cache[UsersAllKey].present

\* The keys of the user that p's write wrote.
WrittenUserKeys(p) == {getCacheKey(req[p].a.id), UsersAllKey}

ViewCountInvalidation ==
    \A p \in Procs :
        /\ WriteDone(p) /\ req[p].op = "IncrementViewCount"
        /\ req[p].err = NoErr /\ req[p].cacheOk /\ req[p].alone
        => \A k \in Keys :
              k = getPostCacheKey(req[p].a.id) \/ MatchesPostsPattern(k) =>
                  ~cache[k].present

\* IncrementViewCount has removed a cached category list.
ViewCountWitness ==
    \E p \in Procs :
        /\ WriteDone(p) /\ req[p].op = "IncrementViewCount"
        /\ req[p].err = NoErr /\ req[p].cacheOk /\ req[p].alone
        /\ getPostCacheKey(req[p].a.id) \in req[p].dels
        /\ req[p].gone = {PostsCategoryKey("c", 2, 0)}

\* The writes that have a key of their entity's own to delete.
EntityWriteDone(p) ==
    /\ WriteDone(p) /\ req[p].op \in {"Update", "Delete", "IncrementViewCount"}
    /\ req[p].err = NoErr /\ req[p].alone

\* The next read of the key of the entity p has written, taken now with the
\* Cache Store and the Data Source working: where it ends.
NextOwnRead(p) ==
    LET op == IF req[p].op = "IncrementViewCount" THEN "FindByIDWithDetails"
              ELSE "FindByID"
        a == [NoArgs EXCEPT !.id = req[p].a.id]
        g == AfterGet(op, a, redisGet(cacheKey(op, a), TRUE))
    IN  IF g.pc = "done" THEN g ELSE AfterRead(g, baseRead(op, a, FALSE))

\* The next read of the written entity's key misses, reads the Data Source
\* and returns what p has written.
NextOwnReadIsFresh(p) ==
    LET n == NextOwnRead(p)
    IN  /\ n.got = "absent"
        /\ n.dsCalls = 1
        /\ req[p].op = "Update" /\ n.err = NoErr => n.res[1].name = req[p].a.name
        /\ req[p].op = "Delete" => n.err = ErrNoRows
        /\ req[p].op = "IncrementViewCount" =>
              n.err = NoErr /\ n.res[1].viewCount = views[req[p].a.id]

BothKeyed == \A p \in Procs : req[p].pc = "keyed"

(* C10: key derivation is deterministic and injective over the read methods *)
(* of both decorators: two calls derive the same key exactly when they are  *)
(* calls of the same method with the same parameters, slugs holding ':' or  *)
(* 'limit='/'offset=' included.                                             *)
KeyInjective ==
    BothKeyed =>
        \A p, q \in Procs :
            /\ req[p].key = cacheKey(req[p].op, req[p].a)
            /\ req[p].key = req[q].key
                  <=> (req[p].op = req[q].op /\ req[p].a = req[q].a)

\* Two category lists whose slugs differ by the text of the page parameters.
KeyInjectiveWitness ==
    /\ BothKeyed
    /\ req["p1"].op = "FindByCategoryWithDetails"
    /\ req["p2"].op = "FindByCategoryWithDetails"
    /\ req["p1"].a.slug = "a:limit=1:offset=0" /\ req["p2"].a.slug = "a"
    /\ req["p1"].a.limit = 11 /\ req["p2"].a.limit = 1
    /\ req["p1"].key = "posts:category:a:limit=1:offset=0:limit=11:offset=10"
    /\ req["p2"].key = "posts:category:a:limit=1:offset=0"

\* What the Data Source holds now for the read handler h called with a.
Current(h, a) == baseRead(FirstOp(h), a, FALSE).val

(* C11: a read request with the bypass flag set is served by the direct     *)
(* usecase; no step of it makes a Cache Store call (no GET, SET, DEL, KEYS) *)
(* or changes the cache or the Data Source, and what it returns is what the *)
(* Data Source holds, a stale entry under the key of the same query or not. *)
BypassStep ==
    \A p \in Procs :
        /\ req'[p] # req[p]
        /\ req'[p].h \in ReadHandlers /\ req'[p].q = "true"
        => /\ cache' = cache
           /\ <<users, nextID, views>>' = <<users, nextID, views>>
           /\ req'[p].uc = DirectUsecase
           /\ req'[p].got = "none" /\ req'[p].key = ""
           /\ req'[p].sets = {} /\ req'[p].dels = {} /\ ~req'[p].scanned
           /\ req'[p].pc \in {"done", "out"}
           /\ req'[p].pc = "done" /\ req'[p].err = NoErr =>
                 req'[p].res = baseRead(req'[p].op, req'[p].a, FALSE).val
           /\ req'[p].pc = "out" /\ req'[p].retErr = NoErr =>
                 IF req'[p].h = "GetPosts"
                 THEN /\ req'[p].ret[2] = baseGetTotalCount.val[1]
                      /\ \E a \in CallsOf("GetPosts") :
                            req'[p].ret[1] = Current("GetPosts", a)[1]
                 ELSE req'[p].ret = Current(req'[p].h, req'[p].a)

BypassReadsDataSourceOnly == [][BypassStep]_vars

\* UpdateUser has named user 1 B and its DELs have failed; GetUserById with
\* no_cache=true returns B while user:1 still holds A.
BypassWitness ==
    \E p \in Procs :
        /\ req[p].pc = "out" /\ req[p].h = "GetUserById" /\ req[p].q = "true"
        /\ req[p].ret = <<[id |-> 1, name |-> "B"]>>
        /\ cache[getCacheKey(1)].present /\ cache[getCacheKey(1)].old
        /\ cache[getCacheKey(1)].data = MarshalUser([id |-> 1, name |-> "A"])

(* C12: CreateUser, UpdateUser and DeleteUser run through the cache-backed  *)
(* usecase whatever no_cache the request carries - the direct usecase never *)
(* makes a user write - and each of them that succeeds has issued the       *)
(* decorator's DELs.                                                        *)
WritesNeverBypass ==
    \A p \in Procs :
        /\ req[p].h \in UserWriteHandlers => req[p].uc = CachedUsecase
        /\ req[p].op \in UserWriteOps /\ req[p].h # "" => req[p].uc = CachedUsecase
        /\ req[p].h \in UserWriteHandlers /\ req[p].pc = "out" /\ req[p].retErr = NoErr =>
              req[p].dels = IF req[p].h = "CreateUser" THEN {UsersAllKey}
                            ELSE {getCacheKey(req[p].a.id), UsersAllKey}

\* DeleteUser with no_cache=true has deleted user 1 and removed the cached list.
WritesNeverBypassWitness ==
    \E p \in Procs :
        /\ req[p].pc = "out" /\ req[p].h = "DeleteUser" /\ req[p].q = "true"
        /\ req[p].status = 204
        /\ users[1] = NoUser
        /\ req[p].dels = {getCacheKey(1), UsersAllKey}
        /\ req[p].gone = {UsersAllKey}

\* The goroutine t has run a view-count increment that MySQL has applied.
IncrementApplied(t) ==
    req[t].h = "go" /\ req[t].pc = "done" /\ req[t].err = NoErr

(* C13 as stated: every view-count increment a post-detail read causes,     *)
(* the read cache-backed or bypassed, goes through the decorator's          *)
(* IncrementViewCount and so is followed by the DEL of post:{id}: with the  *)
(* Cache Store working and nothing else running, no increment leaves the    *)
(* cached post:{id} in place.                                               *)
IncrementAlwaysInvalidates ==
    \A t \in Procs :
        IncrementApplied(t) =>
            /\ req[t].uc = CachedUsecase
            /\ getPostCacheKey(req[t].a.id) \in req[t].dels
            /\ req[t].cacheOk /\ req[t].alone =>
                  ~cache[getPostCacheKey(req[t].a.id)].present

\* The increment of a bypassed GetPostByID(1) has been applied by the MySQL
\* repository: view_count is 1 and post:1 still holds the post with 0 views.
IncrementBypassWitness ==
    \E t \in Procs :
        /\ IncrementApplied(t) /\ req[t].uc = DirectUsecase
        /\ req[t].dels = {} /\ ~req[t].scanned
        /\ views[1] = 1
        /\ cache[getPostCacheKey(1)].present
        /\ cache[getPostCacheKey(1)].data =
              MarshalPost([id |-> 1, slug |-> "a", viewCount |-> 0])

\* Both handlers have selected their usecase.
BothSelected == \A p \in Procs : req[p].pc = "selected"

(* C14: the bypass flag of a post read is true exactly when no_cache is     *)
(* "true" or "1": for those two the direct usecase is selected, for every   *)
(* other value (absent or empty, "false", "TRUE", "0") the cache-backed one.*)
BypassFlagExact ==
    \A p \in Procs :
        req[p].pc = "selected" =>
            /\ req[p].q \in {"true", "1"} => req[p].uc = DirectUsecase
            /\ req[p].q \in {"", "false", "TRUE", "0"} => req[p].uc = CachedUsecase
            /\ req[p].uc \in {DirectUsecase, CachedUsecase}

\* GetPosts?no_cache=TRUE has the cache-backed usecase, GetPostByID?no_cache=1
\* the direct one.
BypassFlagWitness ==
    /\ BothSelected
    /\ req["p1"].h = "GetPosts" /\ req["p1"].q = "TRUE"
    /\ req["p1"].uc = CachedUsecase
    /\ req["p2"].h = "GetPostByID" /\ req["p2"].q = "1"
    /\ req["p2"].uc = DirectUsecase

\* Every Cache Store call of p's finished read has failed: its GET and its SET.
ReadWithDeadCache(p) ==
    /\ ReadDone(p) /\ req[p].got = "error"
    /\ req[p].sets # {} => ~req[p].stored

(* C15: a cache outage is invisible.  A decorator read whose Cache Store    *)
(* calls all fail returns the value and the error the wrapped repository    *)
(* returns for the same call; a decorator write returns the wrapped         *)
(* repository's error whatever becomes of its DELs and KEYS; no decorator   *)
(* method ever returns a Cache Store error.                                 *)
CacheOutageInvisible ==
    \A p \in Procs :
        req[p].pc = "done" =>
            /\ req[p].err \in {NoErr, ErrNoRows, ErrDuplicate, ErrConn}
            /\ req[p].op \in WriteOps => req[p].dsCalls = 1 /\ req[p].err = req[p].dsErr
            /\ ReadWithDeadCache(p) =>
                  /\ req[p].dsCalls = 1
                  /\ req[p].err = req[p].dsErr
                  /\ req[p].alone =>
                        LET d == DirectRead(p, req[p].dsErr = ErrConn)
                        IN  /\ req[p].err = d.err
                            /\ req[p].res = IF d.err = NoErr THEN d.val
                                            ELSE IF req[p].op = "GetTotalCount"
                                                 THEN <<0>> ELSE <<>>

\* After an Update to B, FindByID(1) whose GET and SET both fail returns B,
\* and nothing is stored.
CacheOutageWitness ==
    \E p \in Procs :
        /\ ReadWithDeadCache(p)
        /\ req[p].op = "FindByID"
        /\ req[p].sets = {getCacheKey(1)} /\ ~req[p].stored
        /\ req[p].res = <<[id |-> 1, name |-> "B"]>>
        /\ ~cache[getCacheKey(1)].present

\* Where the read op(a) ends when it is taken now, with the Data Source
\* failing every call; up: the Cache Store answers.
OutageRead(op, a, up) ==
    LET g == AfterGet(op, a, redisGet(cacheKey(op, a), up))
    IN  IF g.pc = "done" THEN g ELSE AfterRead(g, baseRead(op, a, TRUE))

\* The GET of op(a), answered now, finds a payload that deserializes.
WouldHit(op, a) ==
    /\ cache[cacheKey(op, a)].present
    /\ Unmarshal(KindOf(op), cache[cacheKey(op, a)].data).ok

(* C16 as stated: while the Data Source fails every call, every cache-      *)
(* backed read returns the Data Source's error, an unexpired entry under    *)
(* its key or not.                                                          *)
OutageSurfacesAlways ==
    \A op \in ReadOps : \A a \in ArgsOf(op), up \in BOOLEAN :
        OutageRead(op, a, up).err = ErrConn

(* C16 amended: while the Data Source fails every call, a cache-backed read *)
(* that misses (no entry, a failed GET, a payload that does not             *)
(* deserialize) returns the Data Source's error as it is and stores         *)
(* nothing; a read that hits returns the cached value with a nil error and  *)
(* makes no Data Source call.                                               *)
OutageSurfacesOnMiss ==
    \A op \in ReadOps : \A a \in ArgsOf(op), up \in BOOLEAN :
        LET n == OutageRead(op, a, up)
        IN  IF up /\ WouldHit(op, a)
            THEN /\ n.err = NoErr /\ n.dsCalls = 0
                 /\ n.res = Unmarshal(KindOf(op), cache[cacheKey(op, a)].data).val
            ELSE /\ n.err = ErrConn /\ n.dsCalls = 1
                 /\ n.pc = "done" /\ n.sets = {}
                 /\ n.res = IF op = "GetTotalCount" THEN <<0>> ELSE <<>>

\* user:1 is cached: with the Data Source down FindByID(1) returns the cached
\* user, and FindByID(2), not cached, the connection error.
OutageWitness ==
    /\ cache[getCacheKey(1)].present /\ ~cache[getCacheKey(2)].present
    /\ \E p \in Procs : ReadDone(p) /\ req[p].key = getCacheKey(1) /\ req[p].stored
    /\ OutageRead("FindByID", [NoArgs EXCEPT !.id = 1], TRUE).err = NoErr
    /\ OutageRead("FindByID", [NoArgs EXCEPT !.id = 1], TRUE).res
          = <<[id |-> 1, name |-> "A"]>>
    /\ OutageRead("FindByID", [NoArgs EXCEPT !.id = 2], TRUE).err = ErrConn

\* Minutes pass in this step: nothing is asked of the stores and every entry
\* that stays keeps its payload.
TimePasses ==
    /\ req' = req /\ events' # events
    /\ \A k \in Keys : cache'[k].present => cache'[k].data = cache[k].data

(* C17: every entry either decorator stores, whatever the read method, is   *)
(* stored with the TTL of 5 minutes and no entry's TTL is ever extended;    *)
(* all entries age together, and an entry is gone once the minutes passed   *)
(* since its SET reach the TTL; a read that finds its key expired takes the *)
(* miss path to the Data Source.                                            *)
TTLStep ==
    /\ \A k \in Keys : cache'[k].present => cache'[k].ttl \in 1..TTL
    /\ \A k \in Keys :
          cache'[k].present /\ (~cache[k].present \/ cache'[k].ttl > cache[k].ttl) =>
              /\ cache'[k].ttl = TTL
              /\ \E p \in Procs :
                    /\ req[p].pc = "set" /\ req'[p].pc = "done"
                    /\ req'[p].stored /\ req'[p].key = k
    /\ TimePasses =>
          \E d \in 0..TTL : \A k \in Keys :
              cache[k].present =>
                  IF cache[k].ttl > d
                  THEN cache'[k].present /\ cache'[k].ttl = cache[k].ttl - d
                  ELSE ~cache'[k].present
    /\ \A p \in Procs :
          /\ req[p].pc = "idle" /\ req'[p].pc # "idle" /\ req'[p].op \in ReadOps
          /\ ~cache[req'[p].key].present
          => req'[p].pc = "ds" /\ req'[p].got \in {"absent", "error"}

UniformTTL == [][TTLStep]_vars

\* One read has stored an entry, the whole TTL has passed and the entry is
\* gone, and the read that came next has missed, read the Data Source and
\* stored its entry with the whole TTL.
TTLWitness ==
    /\ started = 2 /\ events = 1
    /\ \E p \in Procs :
          /\ ReadDone(p) /\ req[p].got = "absent" /\ req[p].dsCalls = 1
          /\ req[p].op = "FindFeaturedWithDetails"
          /\ req[p].stored /\ cache[req[p].key].ttl = TTL
          /\ \A k \in Keys \ {req[p].key} : ~cache[k].present

\* The goroutines another one has started that have not run yet.
Started(p) == {t \in Others(p) : req[t].pc = "go" /\ req[t].dsCalls = 0}

(* C18: a GetPostByID or GetPostBySlug that succeeds, on a hit or on a      *)
(* miss, has started exactly one goroutine, which is to call the            *)
(* IncrementViewCount of the usecase's repository for the post returned;    *)
(* the response is what the repository's read returned and is complete      *)
(* while that goroutine has not run; one that fails has started none, and   *)
(* no other handler starts any.                                             *)
FireAndForget ==
    \A p \in Procs :
        req[p].pc = "out" =>
            IF req[p].h \in DetailHandlers /\ req[p].retErr = NoErr
            THEN /\ req[p].tasks = 1
                 /\ Cardinality(Started(p)) = 1
                 /\ \A t \in Started(p) :
                       /\ req[t].op = "IncrementViewCount"
                       /\ req[t].a.id = req[p].ret[1].id
                       /\ req[t].uc = req[p].uc
                 /\ req[p].ret = req[p].res /\ req[p].err = NoErr
                 /\ req[p].status = 200
            ELSE /\ req[p].tasks = 0
                 /\ req[p].h \in DetailHandlers =>
                       /\ Started(p) = {}
                       /\ req[p].ret = <<>> /\ req[p].status = 404

\* GetPostBySlug(a) answered from the cache has started the increment of
\* post 1, which has yet to run.
FireAndForgetWitness ==
    \E p \in Procs :
        /\ req[p].pc = "out" /\ req[p].h = "GetPostBySlug"
        /\ req[p].got = "hit" /\ req[p].dsCalls = 0
        /\ req[p].status = 200 /\ req[p].tasks = 1
        /\ \E t \in Started(p) : req[t].a.id = 1 /\ req[t].uc = CachedUsecase

\* Where the read p has made ends when it is made again now, both stores
\* working.
ReadAgain(p) ==
    LET g == AfterGet(req[p].op, req[p].a, redisGet(req[p].key, TRUE))
    IN  IF g.pc = "done" THEN g
        ELSE AfterRead(g, baseRead(req[p].op, req[p].a, FALSE))

(* C19: nothing keeps a reader's SET from landing after a write: whatever   *)
(* has been written since the reader queried the Data Source, its SET       *)
(* stores what it read under its key for the whole TTL, and the next read   *)
(* of the key is a hit that returns it without a Data Source call.  What is *)
(* stored differs from the Data Source only when a write ran beside the     *)
(* read - the stale repopulation of the witness.                            *)
ReaderSetLands ==
    \A p \in Procs :
        ReadDone(p) /\ req[p].stored =>
            /\ cache[req[p].key] = Entry(Marshal(KindOf(req[p].op), req[p].res[1]), TTL)
            /\ ReadAgain(p).got = "hit"
            /\ ReadAgain(p).res = req[p].res
            /\ ReadAgain(p).dsCalls = 0
            /\ req[p].res # DirectRead(p, FALSE).val => ~req[p].alone

\* FindByID(1) missed and read A; Update has named the user B, deleted
\* user:1 and users:all and returned; then the reader's SET has stored A: the
\* next FindByID(1) returns A from the cache.
StaleRepopulationWitness ==
    \E p \in Procs :
        /\ ReadDone(p) /\ req[p].op = "FindByID" /\ req[p].a.id = 1
        /\ req[p].got = "absent" /\ req[p].stored /\ ~req[p].alone
        /\ req[p].res = <<[id |-> 1, name |-> "A"]>>
        /\ users[1] = "B"
        /\ started = 2 /\ \A o \in Others(p) : req[o].pc = "idle"
        /\ cache[getCacheKey(1)].data = MarshalUser([id |-> 1, name |-> "A"])
        /\ ReadAgain(p).got = "hit"
        /\ ReadAgain(p).res = <<[id |-> 1, name |-> "A"]>>

\* The payload the key k holds when it holds what the Data Source holds.
FreshPayloads(k) ==
    UNION {{Marshal(KindOf(op), baseRead(op, a, FALSE).val[1]) :
                a \in {x \in ArgsOf(op) :
                          cacheKey(op, x) = k /\ baseRead(op, x, FALSE).err = NoErr}} :
           op \in ReadOps}

(* C20: with no write running, reads of the same key that miss side by side *)
(* each query the Data Source once, each return what the Data Source holds, *)
(* the misses still to SET hold that same value, and every entry left in    *)
(* the cache is the Data Source's value for its key.                        *)
ConcurrentMissesAgree ==
    /\ \A p \in Procs :
          ReadDone(p) /\ req[p].got # "hit" =>
              /\ req[p].dsCalls = 1
              /\ req[p].err = NoErr => req[p].res = DirectRead(p, FALSE).val
              /\ req[p].stored =>
                    cache[req[p].key] =
                        Entry(Marshal(KindOf(req[p].op), req[p].res[1]), TTL)
              /\ \A o \in Others(p) :
                    req[o].pc = "set" /\ req[o].key = req[p].key =>
                        /\ req[o].dsCalls = 1
                        /\ req[p].err = NoErr => req[o].res = req[p].res
    /\ \A k \in Keys : cache[k].present => cache[k].data \in FreshPayloads(k)

\* Two FindFeaturedWithDetails(1) have both missed and both queried: one has
\* stored the list and returned it, the other is about to store the same.
ConcurrentMissesWitness ==
    \E p \in Procs : \E o \in Others(p) :
        /\ ReadDone(p) /\ req[p].op = "FindFeaturedWithDetails"
        /\ req[p].got = "absent" /\ req[p].stored /\ ~req[p].alone
        /\ req[o].pc = "set" /\ req[o].key = req[p].key
        /\ req[o].got = "absent" /\ req[o].dsCalls = 1
        /\ req[p].res = <<<<[id |-> 2, slug |-> "b", viewCount |-> 0]>>>>

(* C22: GetAllUsers returns exactly what the repository's FindAll returns - *)
(* the same users in the same order - and the repository's error as it is;  *)
(* FindAll is the only repository call it makes.                            *)
GetAllUsersPassThrough ==
    \A p \in Procs :
        req[p].pc = "out" /\ req[p].h = "GetUsers" =>
            /\ req[p].op = "FindAll"
            /\ req[p].ret = req[p].res
            /\ req[p].retErr = req[p].err
            /\ req[p].dsCalls <= 1
            /\ req[p].dels = {} /\ ~req[p].scanned /\ req[p].tasks = 0
            /\ req[p].uc = DirectUsecase =>
                  /\ req[p].dsCalls = 1
                  /\ req[p].retErr = req[p].dsErr
                  /\ req[p].retErr = NoErr => req[p].ret = baseFindAll.val

\* CreateUser has added B, and GetUsers returns B and A, the newest first.
GetAllUsersWitness ==
    \E p \in Procs :
        /\ req[p].pc = "out" /\ req[p].h = "GetUsers"
        /\ req[p].status = 200
        /\ req[p].ret = <<<<[id |-> 2, name |-> "B"], [id |-> 1, name |-> "A"]>>>>

(* C23: CreateUser calls the repository's Create once; when it succeeds it  *)
(* returns the user with the name given and the id the repository assigned  *)
(* (not zero: the id of the row now in the table); when Create fails it     *)
(* returns no user and Create's error.                                      *)
CreateUserReturnsAssigned ==
    \A p \in Procs :
        req[p].pc = "out" /\ req[p].h = "CreateUser" =>
            /\ req[p].op = "Create" /\ req[p].dsCalls = 1
            /\ IF req[p].retErr = NoErr
               THEN /\ Len(req[p].ret) = 1
                    /\ req[p].ret[1].name = req[p].a.name
                    /\ req[p].ret[1].id \in UserIDs
                    /\ req[p].ret[1].id = nextID - 1
                    /\ users[req[p].ret[1].id] = req[p].ret[1].name
                    /\ req[p].status = 201
               ELSE /\ req[p].ret = <<>>
                    /\ req[p].retErr = req[p].dsErr
                    /\ req[p].retErr \in {ErrDuplicate, ErrConn}
                    /\ req[p].status = 500

\* CreateUser(B) has answered 201 with the user B under the new id 2.
CreateUserWitness ==
    \E p \in Procs :
        /\ req[p].pc = "out" /\ req[p].h = "CreateUser"
        /\ req[p].status = 201
        /\ req[p].ret = <<[id |-> 2, name |-> "B"]>>
        /\ users[2] = "B" /\ nextID = 3

(* C24: write, then invalidate.  Every decorator write (user Create,        *)
(* Update, Delete; post IncrementViewCount) has the Data Source write       *)
(* first: a write that has a DEL or a KEYS ahead of it or behind it has     *)
(* made its one Data Source write and has had a nil error for it, the Data  *)
(* Source holds what it wrote, and before its first DEL it has deleted      *)
(* nothing.                                                                 *)
WriteBeforeInvalidate ==
    \A p \in Procs :
        req[p].op \in WriteOps /\ req[p].pc # "idle" =>
            /\ req[p].dsCalls = 1
            /\ \/ req[p].pc \in {"del1", "del2", "keys", "delk"}
               \/ req[p].dels # {} \/ req[p].scanned
               => /\ req[p].dsErr = NoErr
                  /\ req[p].alone =>
                        CASE req[p].op = "Create" -> users[req[p].a.id] = req[p].a.name
                          [] req[p].op = "Update" ->
                                users[req[p].a.id] \in {NoUser, req[p].a.name}
                          [] req[p].op = "Delete" -> users[req[p].a.id] = NoUser
                          [] OTHER -> views[req[p].a.id] >= 1
            /\ req[p].pc = "del1" \/ (req[p].pc = "del2" /\ req[p].op = "Create") =>
                  req[p].dels = {} /\ req[p].gone = {} /\ ~req[p].scanned
            /\ req[p].dsErr # NoErr => req[p].pc = "done"

\* Update has named user 1 B in the Data Source and is about to issue its
\* first DEL: user:1 still holds A.
WriteBeforeInvalidateWitness ==
    \E p \in Procs :
        /\ req[p].op = "Update" /\ req[p].pc = "del1"
        /\ users[1] = "B" /\ req[p].a.id = 1
        /\ req[p].dels = {}
        /\ cache[getCacheKey(1)].present /\ cache[getCacheKey(1)].old
        /\ cache[getCacheKey(1)].data = MarshalUser([id |-> 1, name |-> "A"])

(* C25: invalidation is best-effort.  A decorator write whose Data Source   *)
(* write succeeded returns nil whatever becomes of its DELs and its KEYS,   *)
(* and a DEL that fails does not stop the rest: the write has issued every  *)
(* DEL of its method - its own key, users:all for a user write, and for     *)
(* IncrementViewCount the KEYS and the DEL of the keys the scan returned.   *)
BestEffortInvalidation ==
    \A p \in Procs :
        WriteDone(p) /\ req[p].dsErr = NoErr =>
            /\ req[p].err = NoErr
            /\ OwnKeys(req[p].op, req[p].a) \subseteq req[p].dels
            /\ req[p].op \in UserWriteOps =>
                  req[p].dels = OwnKeys(req[p].op, req[p].a) \cup {UsersAllKey}
            /\ req[p].op = "IncrementViewCount" =>
                  /\ req[p].scanned
                  /\ req[p].dels = OwnKeys(req[p].op, req[p].a) \cup req[p].keys

\* Update's DEL of user:1 has failed - the entry is still there - and Update
\* has gone on to DEL users:all and has returned nil.
BestEffortWitness ==
    \E p \in Procs :
        /\ WriteDone(p) /\ req[p].op = "Update" /\ req[p].a.id = 1
        /\ req[p].err = NoErr /\ ~req[p].cacheOk
        /\ cache[getCacheKey(1)].present
        /\ req[p].gone = {}
        /\ req[p].dels = {getCacheKey(1), UsersAllKey}

\* Where the read op(a) ends when it is taken now, both stores working.
ReadNow(op, a) ==
    LET g == AfterGet(op, a, redisGet(cacheKey(op, a), TRUE))
    IN  IF g.pc = "done" THEN g ELSE AfterRead(g, baseRead(op, a, FALSE))

\* A successful IncrementViewCount of a post whose slug has a key, with every
\* Cache Store call answered and nothing running beside it.
IncrementDone(p) ==
    /\ WriteDone(p) /\ req[p].op = "IncrementViewCount"
    /\ req[p].err = NoErr /\ req[p].cacheOk /\ req[p].alone
    /\ PostSlug[req[p].a.id] \in Slugs

\* The read of the post by its slug, taken once p has returned.
SlugReadAfter(p) ==
    ReadNow("FindBySlugWithDetails", [NoArgs EXCEPT !.slug = PostSlug[req[p].a.id]])

(* C27 as stated: after a successful IncrementViewCount(id) with nothing    *)
(* running beside it, FindBySlugWithDetails of the post's slug is a miss    *)
(* that returns the incremented view count: post:slug:{slug} does not       *)
(* survive the write.                                                       *)
IncrementClearsSlugKey ==
    \A p \in Procs :
        IncrementDone(p) =>
            /\ ~cache[PostSlugKey(PostSlug[req[p].a.id])].present
            /\ SlugReadAfter(p).got = "absent"
            /\ SlugReadAfter(p).dsCalls = 1
            /\ SlugReadAfter(p).res[1].viewCount = views[req[p].a.id]

\* post:slug:a holds post 1 with 0 views; IncrementViewCount(1) has returned
\* nil with all its Cache Store calls answered, view_count is 1, and the read
\* by slug is a hit that returns 0 views.
SlugEntrySurvives ==
    \E p \in Procs :
        /\ IncrementDone(p) /\ req[p].a.id = 1
        /\ views[1] = 1
        /\ req[p].dels = {getPostCacheKey(1)} /\ req[p].scanned /\ req[p].keys = {}
        /\ cache[PostSlugKey("a")].present
        /\ SlugReadAfter(p).got = "hit" /\ SlugReadAfter(p).dsCalls = 0
        /\ SlugReadAfter(p).res = <<[id |-> 1, slug |-> "a", viewCount |-> 0]>>

\* The page the usecase goes on with, and the page size.
PageOf(r) == IF r.a.page < 1 THEN 1 ELSE r.a.page
SizeOf(r) == IF r.a.pageSize < 1 \/ r.a.pageSize > 100 THEN 20 ELSE r.a.pageSize

(* C28 as stated: for every int page and pageSize, GetPosts,                *)
(* GetPostsByCategory and GetPostsByTag call the repository with limit =    *)
(* the normalised pageSize and offset = (page - 1) * pageSize, so that the  *)
(* repository and the cache key receive 1 <= limit <= 100 and an offset     *)
(* that is not negative - for the largest int too.                          *)
PaginationInRange ==
    \A p \in Procs :
        req[p].pc = "paged" =>
            /\ req[p].a.limit = SizeOf(req[p])
            /\ req[p].a.limit \in 1..100
            /\ req[p].a.offset = (PageOf(req[p]) - 1) * SizeOf(req[p])
            /\ req[p].a.offset >= 0

\* GetPosts with the largest int as page and pageSize 20 has called
\* FindAllWithDetails(20, -40).
PaginationOverflowWitness ==
    \E p \in Procs :
        /\ req[p].pc = "paged" /\ req[p].h = "GetPosts"
        /\ req[p].a.page = MaxInt /\ req[p].a.pageSize = 20
        /\ req[p].a.limit = 20 /\ req[p].a.offset = 0 - 40
        /\ req[p].key = "posts:all:limit=20:offset=-40"

(* C26 as stated: when serializing the Data Source's result fails on the    *)
(* populate step of a read, no SET is issued for the key and the cache is   *)
(* left as it was, while the read returns the Data Source's result.         *)
MarshalFailureSkipsSet ==
    \A p \in Procs :
        ReadDone(p) /\ ~req[p].enc =>
            /\ req[p].sets = {} /\ ~req[p].stored
            /\ cache[req[p].key] = req[p].pre
            /\ req[p].err = NoErr /\ req[p].res = req[p].dsVal

\* json.Marshal of the user FindByID(1) read has failed; SET user:1 was issued
\* with the nil payload and stored for the whole TTL, the read has returned
\* the user, and the next read of the key finds a payload it cannot decode.
NilPayloadStored ==
    \E p \in Procs :
        /\ ReadDone(p) /\ ~req[p].enc /\ req[p].op = "FindByID"
        /\ req[p].sets = {getCacheKey(1)} /\ req[p].stored
        /\ ~req[p].pre.present
        /\ cache[getCacheKey(1)] = Entry("", TTL)
        /\ req[p].err = NoErr /\ req[p].res = <<[id |-> 1, name |-> "A"]>>
        /\ ReadNow("FindByID", req[p].a).got = "corrupt"

\* UpdateUser has its user from FindByID and is to go on to Update without a
\* name of the request's.
UpdateKeepsName(p) ==
    /\ req[p].h = "UpdateUser" /\ req[p].op = "FindByID"
    /\ req[p].pc = "done" /\ req[p].err = NoErr
    /\ req[p].a.name = ""

(* C29 as stated: a cache-backed UpdateUser that does not supply the name   *)
(* writes the name the Data Source holds at that time, never one taken from *)
(* a stale user:{id} entry: its Update leaves the stored name as it is and  *)
(* reverts no completed write.                                              *)
UpdateKeepsStep ==
    \A p \in Procs :
        /\ UpdateKeepsName(p)
        /\ req'[p].op = "Update" /\ req'[p].dsErr = NoErr
        => /\ req[p].res[1].name = users[req[p].a.id]
           /\ users' = users

CacheNeverFeedsSource == [][UpdateKeepsStep]_vars

\* user:1 holds A; an UpdateUser has named the user B and its DEL of user:1
\* has failed; the next UpdateUser, which supplies no name, has read A from
\* the cache and goes on to write it over B.
StaleUserWrittenBack ==
    \E p \in Procs :
        /\ UpdateKeepsName(p) /\ req[p].a.id = 1
        /\ req[p].got = "hit" /\ req[p].dsCalls = 0 /\ req[p].pre.old
        /\ req[p].res = <<[id |-> 1, name |-> "A"]>>
        /\ users[1] = "B"

\* A successful IncrementViewCount has returned.
IncrementReturned(p) ==
    WriteDone(p) /\ req[p].op = "IncrementViewCount" /\ req[p].err = NoErr

ScannedKeysDeleted ==
    \A p \in Procs :
        IncrementReturned(p) =>
            /\ req[p].scanned
            /\ req[p].dels = {getPostCacheKey(req[p].a.id)} \cup req[p].keys
            /\ \A k \in Keys :
                  MatchesPostsPattern(k) /\ cache[k].present => ~req[p].alone

\* The scan of p takes the posts:* keys in the cache at that moment.
ScanStep(p) ==
    req[p].pc = "keys" /\ req'[p].pc # "keys" =>
        /\ req'[p].keys = {k \in Keys : MatchesPostsPattern(k) /\ cache[k].present}
        /\ cache' = cache

\* The DEL of p removes the keys its scan returned, and no other.
DeleteStep(p) ==
    req[p].pc = "delk" /\ req'[p].pc # "delk" =>
        cache' = [k \in Keys |-> IF k \in req[p].keys THEN NoEntry ELSE cache[k]]

ReadIsCurrent(op, a) ==
    LET r == ReadNow(op, a)
        b == baseRead(op, a, FALSE)
    IN  /\ r.err = b.err
        /\ b.err = NoErr => r.res = b.val

\* Every cache-backed read of every key returns the Data Source's value.
AllReadsCurrent == \A op \in ReadOps : \A a \in ArgsOf(op) : ReadIsCurrent(op, a)

\* Every entry in the cache has between a minute and the TTL left.
EntriesWithinTTL ==
    \A k \in Keys : cache[k].present => cache[k].ttl \in 1..TTL

(* C21: every entry in the cache is within TTL of the SET that stored it    *)
(* and is removed by expiry or DEL no later than that; so, with a bounded   *)
(* number of writes and time advancing, from some moment on every           *)
(* cache-backed read of every key (single entity, list and page variants)   *)
(* returns the Data Source's current value, whichever DELs have failed.     *)
EventuallyConsistent == []EntriesWithinTTL /\ <>[]AllReadsCurrent

\* All requests made and answered: user 1 was cached as A, Update named the
\* user B with its DEL of user:1 failing, and a minute on the entry is still
\* there, so that FindByID(1) returns A.
StaleUntilExpiry ==
    /\ started = MaxReqs /\ \A p \in Procs : req[p].pc = "idle"
    /\ users[1] = "B"
    /\ cache[getCacheKey(1)].present /\ cache[getCacheKey(1)].old
    /\ cache[getCacheKey(1)].ttl < TTL
    /\ ReadNow("FindByID", [NoArgs EXCEPT !.id = 1]).res = <<[id |-> 1, name |-> "A"]>>
    /\ ~AllReadsCurrent

\* A cache-backed GetPostByID that read the Data Source has returned its post,
\* with nothing running beside it.
DetailReadOut(p) ==
    /\ req[p].pc = "out" /\ req[p].h = "GetPostByID"
    /\ req[p].uc = CachedUsecase /\ req[p].retErr = NoErr
    /\ req[p].dsCalls = 1 /\ req[p].alone

\* The goroutine of a cache-backed detail read has incremented, with nothing
\* running beside it.
DetailIncrementDone(t) ==
    IncrementApplied(t) /\ req[t].uc = CachedUsecase /\ req[t].alone

\* GetPostByID(id) taken at this moment through the cached repository.
DetailReadNow(id) == ReadNow("FindByIDWithDetails", [NoArgs EXCEPT !.id = id])

HitStep(p) ==
    /\ req[p].pc = "idle" /\ req'[p].pc = "done"
    /\ req'[p].op \in ReadOps /\ req'[p].got = "hit"

(* C32: a decorator read that hits leaves the Cache Store as it is - every  *)
(* key, its value and the time it has left, the entry read included - and   *)
(* the Data Source as it is; it makes no Data Source call and no SET.       *)
HitChangesNothing ==
    [][\A p \in Procs :
          HitStep(p) =>
              /\ cache' = cache
              /\ users' = users /\ views' = views /\ nextID' = nextID
              /\ req'[p].dsCalls = 0 /\ ~req'[p].stored]_vars

\* FindByID(1) was stored and time has passed; a second FindByID(1) has hit
\* and the entry has as little time left as before.
HitChangesNothingWitness ==
    \E p \in Procs :
        /\ ReadDone(p) /\ req[p].got = "hit" /\ req[p].op = "FindByID"
        /\ req[p].pre.ttl < TTL
        /\ cache[req[p].key] = req[p].pre
        /\ req[p].dsCalls = 0

\* What each call has asked of the Cache Store so far: a read no DEL and no
\* SET but of its own key, and none at all on a hit; a write no SET.
ReadsSetWritesDelete ==
    \A p \in Procs :
        /\ req[p].op \in ReadOps =>
              /\ req[p].dels = {} /\ req[p].gone = {} /\ ~req[p].scanned
              /\ req[p].key = cacheKey(req[p].op, req[p].a)
              /\ req[p].sets \subseteq {req[p].key}
              /\ req[p].got = "hit" \/ req[p].dsErr # NoErr => req[p].sets = {}
        /\ req[p].op \in WriteOps => req[p].sets = {} /\ ~req[p].stored

\* An entry that was not there is there after the step: a read that missed
\* has stored it under its key.
EntryCreated(k) ==
    ~cache[k].present /\ cache'[k].present =>
        \E p \in Procs :
            /\ req[p].op \in ReadOps /\ req[p].pc = "set" /\ req[p].key = k
            /\ req[p].got # "hit" /\ req[p].dsCalls = 1
            /\ req'[p].stored

\* An entry that was there is gone after the step: its TTL has run out or a
\* write has deleted it.
EntryRemoved(k) ==
    cache[k].present /\ ~cache'[k].present =>
        \/ events' # events
        \/ \E p \in Procs :
              /\ req[p].op \in WriteOps /\ req[p].pc \in {"del1", "del2", "delk"}
              /\ k \in req'[p].gone

(* C33: reads only populate and writes only invalidate.  A decorator read   *)
(* issues no DEL and sets at most the key derived from its own parameters,  *)
(* and that on a miss only; a decorator write issues no SET.  An entry      *)
(* comes into the cache only by the SET of a read that missed, and leaves   *)
(* it only by expiry or by the DEL of a write.                              *)
ReadsPopulateWritesInvalidate ==
    /\ []ReadsSetWritesDelete
    /\ [][\A k \in Keys : EntryCreated(k) /\ EntryRemoved(k)]_vars

\* Create has written user 2 and deleted users:all, which FindAll had stored;
\* it has set nothing, and user:2 is not in the cache.
ReadsPopulateWitness ==
    \E p \in Procs :
        /\ WriteDone(p) /\ req[p].op = "Create" /\ req[p].err = NoErr
        /\ req[p].a.id = 2 /\ users[2] # NoUser
        /\ req[p].gone = {UsersAllKey} /\ req[p].sets = {}
        /\ \A k \in Keys : ~cache[k].present

\* The keys the claim allows a write to remove.
InvalidationScope(op, a) ==
    IF op = "IncrementViewCount"
    THEN {getPostCacheKey(a.id)} \cup {k \in Keys : MatchesPostsPattern(k)}
    ELSE {getCacheKey(a.id), UsersAllKey}

\* The scope of an increment holds no user key and no other post's key.
KeyspacesApart ==
    \A id \in PostIDs :
        \A k \in InvalidationScope("IncrementViewCount", [NoArgs EXCEPT !.id = id]) :
            /\ k # UsersAllKey
            /\ \A i \in UserIDs : k # getCacheKey(i)
            /\ \A j \in PostIDs \ {id} : k # getPostCacheKey(j)
            /\ \A s \in Slugs : k # PostSlugKey(s)

\* DEL has been issued by a write for keys of its scope only.
DeletesInScope ==
    \A p \in Procs :
        req[p].op \in WriteOps =>
            req[p].dels \cup req[p].gone \subseteq InvalidationScope(req[p].op, req[p].a)

\* A step of the invalidation of p leaves every entry outside the scope as it
\* is: present, with its payload and the time it has left.
ScopeStep(p) ==
    /\ req[p].op \in WriteOps /\ req[p].pc \in {"del1", "del2", "keys", "delk"}
    /\ req'[p].pc # req[p].pc
    => \A k \in Keys \ InvalidationScope(req[p].op, req[p].a) : cache'[k] = cache[k]

(* C34: the scope of an invalidation is the written entity.  A user write   *)
(* on id removes no key but user:{id} and users:all: user:{j} of another    *)
(* user and every post key stay as they are.  IncrementViewCount(id)        *)
(* removes no key but post:{id} and the posts:* keys: no user:* key, not    *)
(* users:all and no post:{j} of another post, though the two decorators     *)
(* share one Cache Store.                                                   *)
InvalidationConfined ==
    /\ [](KeyspacesApart /\ DeletesInScope)
    /\ [][\A p \in Procs : ScopeStep(p)]_vars

\* user:1 and the featured list were cached and FindByIDWithDetails(2) has
\* stored post:2; IncrementViewCount(1) has then removed the featured list
\* and left user:1 and post:2 in the cache.
InvalidationConfinedWitness ==
    \E p \in Procs :
        /\ WriteDone(p) /\ req[p].op = "IncrementViewCount" /\ req[p].a.id = 1
        /\ req[p].err = NoErr /\ req[p].cacheOk
        /\ req[p].gone = {PostsFeaturedKey(1)}
        /\ cache[getCacheKey(1)].present
        /\ cache[getPostCacheKey(2)].present
        /\ ~cache[PostsFeaturedKey(1)].present

\* The inputs the claim has turned down.
BadInput(h, a) ==
    \/ h = "GetPostByID" /\ a.id <= 0
    \/ h \in {"GetPostBySlug", "GetPostsByCategory", "GetPostsByTag"} /\ a.slug = ""

\* A call with such an input has returned an error and nothing else: no
\* repository call, so no GET, no query, no SET, and no goroutine.
TurnedDown ==
    \A p \in Procs :
        req[p].h \in GuardedMethods =>
            /\ BadInput(req[p].h, req[p].a) =>
                  /\ req[p].pc = "out"
                  /\ req[p].retErr # NoErr /\ req[p].ret = <<>>
                  /\ req[p].op = "" /\ req[p].key = "" /\ req[p].got = "none"
                  /\ req[p].dsCalls = 0 /\ req[p].sets = {} /\ req[p].dels = {}
                  /\ req[p].tasks = 0
            /\ ~BadInput(req[p].h, req[p].a) => req[p].op = FirstOp(req[p].h)

\* The step in which such a call is made changes neither store and starts
\* nothing beside it.
TurnedDownStep(p) ==
    /\ req[p].pc = "idle" /\ req'[p].h \in GuardedMethods
    /\ BadInput(req'[p].h, req'[p].a)
    => /\ cache' = cache /\ users' = users /\ views' = views /\ nextID' = nextID
       /\ \A o \in Others(p) :
             req'[o].pc = req[o].pc /\ req'[o].op = req[o].op /\ req'[o].a = req[o].a

(* C35: the input guards come before any I/O.  GetPostByID with id <= 0,    *)
(* GetPostBySlug with an empty slug and GetPostsByCategory / GetPostsByTag  *)
(* with an empty slug return an error without calling the repository, so    *)
(* with no call of the Cache Store or the Data Source, and without starting *)
(* the goroutine that increments the view count; every other input goes to  *)
(* the repository.                                                          *)
GuardsBeforeIO ==
    /\ []TurnedDown
    /\ [][\A p \in Procs : TurnedDownStep(p)]_vars

\* GetPostByID(1) has been served and its goroutine has incremented; then
\* GetPostByID(0) of the cache-backed usecase has returned its error, with
\* the stores as the first call left them.
GuardsBeforeIOWitness ==
    \E p \in Procs :
        /\ req[p].h = "GetPostByID" /\ req[p].a.id = 0 /\ req[p].uc = CachedUsecase
        /\ req[p].pc = "out" /\ req[p].retErr = "invalid post ID: 0"
        /\ req[p].dsCalls = 0 /\ req[p].tasks = 0
        /\ started = 2 /\ views[1] = 1
        /\ \A o \in Others(p) : req[o].pc = "idle"

\* Thirty pings of a store have failed.
PingsExhausted ==
    \/ boot.dbPings = MaxPings /\ ~boot.dbOk
    \/ boot.redisPings = MaxPings /\ ~boot.redisOk

\* A request has been taken, or has left something in the cache.
SomeRequest ==
    \/ started > 0
    \/ \E p \in Procs : req[p].pc # "idle"
    \/ \E k \in Keys : cache[k].present

\* Where startup can stand: at most 30 pings of each store, Redis pinged only
\* once MySQL has answered, serving only once both have, and a request only
\* while serving.
StartupOrder ==
    /\ boot.dbPings <= MaxPings /\ boot.redisPings <= MaxPings
    /\ boot.redisPings > 0 => boot.dbOk
    /\ boot.phase \in {"wired", "serving"} => boot.dbOk /\ boot.redisOk
    /\ SomeRequest => boot.phase = "serving"
    /\ PingsExhausted => boot.phase \in {"mysql", "redis", "exited"} /\ ~SomeRequest

\* A store that has answered is not pinged again; thirty failures are
\* followed by the exit; after the exit nothing happens.
StartupStep ==
    /\ boot.dbOk => boot'.dbPings = boot.dbPings
    /\ boot.redisOk => boot'.redisPings = boot.redisPings
    /\ PingsExhausted => boot'.phase = "exited"
    /\ boot.phase # "exited"

(* C36: startup gating.  main pings MySQL and then Redis at most 30 times   *)
(* each and stops at the first success; the server accepts requests only    *)
(* after a MySQL ping and a Redis ping have both succeeded; after 30        *)
(* failed pings of either store the process exits and no request is ever    *)
(* served: a Cache Store that cannot be reached at startup is fatal.        *)
StartupGating == []StartupOrder /\ [][StartupStep]_vars

\* MySQL answered its third ping; Redis has failed thirty and main has
\* exited, with no request taken.
StartupGatingWitness ==
    /\ boot.phase = "exited"
    /\ boot.dbOk /\ boot.dbPings = 3
    /\ ~boot.redisOk /\ boot.redisPings = MaxPings
    /\ ~SomeRequest

====
